---------------------------- MODULE Spec2Model ----------------------------
(***************************************************************************)
(* The fact-check pipeline of politweet-assistant:                         *)
(*   services/fact_checker.py   FactChecker (aggregation, orchestration)   *)
(*   services/text_analyzer.py  TextAnalyzer (claim extraction)            *)
(*                                                                         *)
(* Python floats are modelled as binary floating-point numbers with a      *)
(* significand of Precision bits and round-to-nearest, ties-to-even, the   *)
(* rounding of IEEE 754 doubles at a reduced width.  A float is held as a  *)
(* natural number counting units of 2^-FracBits.                           *)
(***************************************************************************)
EXTENDS Integers, Sequences, FiniteSets, TLC

VARIABLES
    pc,               \* position of the modelled call
    content,          \* the text handed to TextAnalyzer.analyze / check_facts
    content_type,     \* check_facts' content_type
    analysis_length,  \* the analysis-length profile
    fault,            \* the step of check_facts in which a collaborator raises
    content_analysis, \* value returned by the analyzer
    claims,           \* check_facts' local claims
    verified_claims,  \* argument of _evaluate_overall_truth / local of check_facts
    truth_rating,     \* value returned by _evaluate_overall_truth
    result,           \* how the operation ended, and the value it returned
    calls,            \* number of calls of the operation performed so far
    sources,          \* check_facts' local sources / the URLs to evaluate
    source_url,       \* argument of evaluate_source
    expertise_level,  \* the requested level of detail
    today,            \* datetime.date.today(), in days since the page's date
    response,         \* content of the language model's response
    retry_count,      \* _send_request_with_retry's local retry_count
    last_error,       \* _send_request_with_retry's local last_error
    waits,            \* the arguments of the time.sleep calls made so far
    statuses,         \* the outcomes of the requests.post calls made so far
    video_data,       \* fps and frame_count of the loaded video
    frame_idx,        \* _detect_scenes' loop variable
    prev_frame,       \* whether _detect_scenes' prev_frame is set
    diff_mean,        \* _detect_scenes' local diff_mean
    current_scene,    \* _detect_scenes' local current_scene
    scenes,           \* _detect_scenes' local scenes
    positions         \* the frame indices passed to cap.set so far

vars == <<pc, content, content_type, analysis_length, fault, content_analysis,
          claims, verified_claims, truth_rating, result, calls,
          sources, source_url, expertise_level, today, response,
          retry_count, last_error, waits, statuses,
          video_data, frame_idx, prev_frame, diff_mean, current_scene, scenes,
          positions>>

\* The variables of SourceEvaluator and OpenAIService.
service_vars == <<sources, source_url, expertise_level, today, response>>

\* No source is being evaluated and no response is being parsed.
IdleServices ==
    /\ sources = << >>
    /\ source_url = << >>
    /\ expertise_level = "medium"
    /\ today = 0
    /\ response = << >>

\* The variables of OpenAIService._send_request_with_retry.
request_vars == <<retry_count, last_error, waits, statuses>>

\* No request is being sent.
IdleRequests ==
    /\ retry_count = 0
    /\ last_error = [none |-> TRUE]
    /\ waits = << >>
    /\ statuses = << >>

\* The variables of VideoAnalyzer.
video_vars ==
    <<video_data, frame_idx, prev_frame, diff_mean, current_scene, scenes, positions>>

\* No video is loaded.
IdleVideo ==
    /\ video_data = [fps |-> 0, frame_count |-> 0]
    /\ frame_idx = 0
    /\ prev_frame = FALSE
    /\ diff_mean = 0
    /\ current_scene = [start |-> 0, end |-> 0]
    /\ scenes = << >>
    /\ positions = << >>

---------------------------------------------------------------------------
(* Bounds of the model *)

Precision == 5     \* bits of significand of the modelled float
FracBits == 8      \* the float grid: one unit is 2^-FracBits
MaxClaims == 3     \* longest list of verified claims
MaxCalls == 2      \* repeated calls of the aggregator on the same list
MaxChunks == 4     \* longest text, in sentences and whitespace runs
MaxContentChunks == 2  \* longest text handed to check_facts

---------------------------------------------------------------------------
(* Floating-point arithmetic (Python float: +, *, /, literals) *)

Pow2(n) == 2 ^ n

\* The exponent of the float nearest below n/d: the least e >= 0 with
\* n / (d * 2^e) < 2^Precision.
RECURSIVE Exponent(_, _, _)
Exponent(n, d, e) ==
    IF n < d * Pow2(Precision + e) THEN e ELSE Exponent(n, d, e + 1)

\* The float nearest to the rational n/d units (ties to even).
RoundRat(n, d) ==
    LET e == Exponent(n, d, 0)
        step == d * Pow2(e)
        q == n \div step
        r == n % step
        up == (2 * r > step) \/ (2 * r = step /\ q % 2 = 1)
    IN  (IF up THEN q + 1 ELSE q) * Pow2(e)

FAdd(a, b) == RoundRat(a + b, 1)
FMul(a, b) == RoundRat(a * b, Pow2(FracBits))
FDiv(a, b) == RoundRat(a * Pow2(FracBits), b)

\* Float subtraction of a smaller number.
FSub(a, b) == RoundRat(a - b, 1)

\* The float a decimal literal n/d denotes (0.9 is Literal(9, 10)).
Literal(n, d) == RoundRat(n * Pow2(FracBits), d)

---------------------------------------------------------------------------
(* FactChecker.truth_scale (fact_checker.py 45-100) *)

Zero == 0
One == Pow2(FracBits)
Half == Literal(1, 2)

\* The keys of truth_scale in the dict's insertion order, the order in which
\* _evaluate_overall_truth iterates it.
TruthScaleKeys ==
    << "true", "mostly_true", "partly_true", "mostly_false", "false",
       "misleading", "insufficient_evidence", "unverifiable", "satire" >>

truth_scale ==
    [ true |->
        [ name |-> "Pravdive", description |-> "Informace je zcela presna",
          color |-> "#34A853",
          score_range |-> << Literal(9, 10), Literal(1, 1) >> ],
      mostly_true |->
        [ name |-> "Prevazne pravdive",
          description |-> "Informace je z vetsi casti presna",
          color |-> "#4CAF50",
          score_range |-> << Literal(75, 100), Literal(9, 10) >> ],
      partly_true |->
        [ name |-> "Castecne pravdive",
          description |-> "Informace obsahuje nektere pravdive prvky",
          color |-> "#FBBC05",
          score_range |-> << Literal(5, 10), Literal(75, 100) >> ],
      mostly_false |->
        [ name |-> "Prevazne nepravdive",
          description |-> "Informace je prevazne nepresna nebo zavadejici",
          color |-> "#F57C00",
          score_range |-> << Literal(25, 100), Literal(5, 10) >> ],
      false |->
        [ name |-> "Nepravdive", description |-> "Informace je zcela nepresna",
          color |-> "#EA4335",
          score_range |-> << Literal(0, 1), Literal(25, 100) >> ],
      misleading |->
        [ name |-> "Zavadejici",
          description |-> "Informace muze byt technicky pravdiva, ale je zavadejici",
          color |-> "#9C27B0",
          score_range |-> << Literal(3, 10), Literal(6, 10) >> ],
      insufficient_evidence |->
        [ name |-> "Nedostatecne udaje",
          description |-> "Nelze jednoznacne urcit pravdivost informace",
          color |-> "#9AA0A6",
          score_range |-> << Literal(4, 10), Literal(6, 10) >> ],
      unverifiable |->
        [ name |-> "Neoveritelne",
          description |-> "Tvrzeni nelze overit pomoci dostupnych faktu",
          color |-> "#607D8B",
          score_range |-> << Literal(4, 10), Literal(6, 10) >> ],
      satire |->
        [ name |-> "Satira",
          description |-> "Obsah je zamerne nepravdivy nebo prehnany",
          color |-> "#8D6E63",
          score_range |-> << Literal(3, 10), Literal(7, 10) >> ] ]

\* The categories the range scan skips (fact_checker.py 386).
SpecialKeys == {"misleading", "insufficient_evidence", "unverifiable", "satire"}

---------------------------------------------------------------------------
(* FactChecker._evaluate_overall_truth (fact_checker.py 347-408) *)

\* Faulty variant: a claim without relevance_score weighs 0.
ClaimWeight_DefaultZero(claim) ==
    IF "relevance_score" \in DOMAIN claim THEN claim.relevance_score ELSE Zero

\* claim.get('relevance_score', 1.0)
ClaimWeight(claim) ==
    IF "relevance_score" \in DOMAIN claim THEN claim.relevance_score ELSE One

\* The loop of lines 371-375: total_score and total_weight after the claims
\* i..Len(claims), starting from the accumulators ts and tw.
RECURSIVE Accumulate(_, _, _, _)
Accumulate(claim_list, i, ts, tw) ==
    IF i > Len(claim_list)
    THEN [total_score |-> ts, total_weight |-> tw]
    ELSE LET weight == ClaimWeight(claim_list[i])
         IN  Accumulate(claim_list, i + 1,
                        FAdd(ts, FMul(claim_list[i].score, weight)),
                        FAdd(tw, weight))

\* Faulty variant: a total weight of 0 yields the score 0.
AvgScore_FallbackZero(claim_list) ==
    LET t == Accumulate(claim_list, 1, Zero, Zero)
    IN  IF t.total_weight > 0 THEN FDiv(t.total_score, t.total_weight) ELSE Zero

\* Line 378.
AvgScore(claim_list) ==
    LET t == Accumulate(claim_list, 1, Zero, Zero)
    IN  IF t.total_weight > 0 THEN FDiv(t.total_score, t.total_weight) ELSE Half

\* score_min <= avg_score < score_max (line 384)
InRange(key, avg_score) ==
    /\ truth_scale[key].score_range[1] <= avg_score
    /\ avg_score < truth_scale[key].score_range[2]

\* The scan of lines 381-391 from the i-th key on: the first key whose range
\* holds avg_score and that is not a special category; "" stands for None.
RECURSIVE ScanRating(_, _)
ScanRating(avg_score, i) ==
    IF i > Len(TruthScaleKeys) THEN ""
    ELSE LET key == TruthScaleKeys[i]
         IN  IF InRange(key, avg_score) /\ key \notin SpecialKeys
             THEN key
             ELSE ScanRating(avg_score, i + 1)

\* Faulty variant: the default of lines 394-398 with its comparison inverted.
RatingKey_DefaultInverted(avg_score) ==
    LET rating_key == ScanRating(avg_score, 1)
    IN  IF rating_key # "" THEN rating_key
        ELSE IF avg_score < Half THEN "partly_true" ELSE "mostly_false"

\* Lines 381-398.
RatingKey(avg_score) ==
    LET rating_key == ScanRating(avg_score, 1)
    IN  IF rating_key # "" THEN rating_key
        ELSE IF avg_score >= Half THEN "partly_true" ELSE "mostly_false"

\* The dictionary returned for a rating key and a score (lines 359-365, 402-408).
Rating(key, score) ==
    [ name |-> truth_scale[key].name, key |-> key,
      description |-> truth_scale[key].description,
      color |-> truth_scale[key].color, score |-> score ]

\* Faulty variant: the empty list gets the score 0.
evaluate_overall_truth_EmptyScoreZero(claim_list) ==
    IF claim_list = << >>
    THEN Rating("insufficient_evidence", Zero)
    ELSE Rating(RatingKey(AvgScore(claim_list)), AvgScore(claim_list))

\* Faulty variant: the check of line 357 never fires, the empty list is averaged.
evaluate_overall_truth_NoEmptyCheck(claim_list) ==
    Rating(RatingKey(AvgScore(claim_list)), AvgScore(claim_list))

evaluate_overall_truth(claim_list) ==
    IF claim_list = << >>
    THEN Rating("insufficient_evidence", Half)
    ELSE LET avg_score == AvgScore(claim_list)
         IN  Rating(RatingKey(avg_score), avg_score)

---------------------------------------------------------------------------
(* The aggregator applied to every bounded list of verified claims *)

\* Scores of verified claims: floats in [0, 1].
ScoreValues == { Literal(10, 100), Literal(30, 100), Literal(95, 100), One }

\* Relevance weights: 0.0 (an unclassified visual element), 1 and 2
\* (TextAnalyzer's relevance scores).
WeightValues == { Zero, One, 2 * One }

VerifiedClaimValues ==
    [score : ScoreValues] \cup [score : ScoreValues, relevance_score : WeightValues]

ClaimLists ==
    UNION { [1..n -> VerifiedClaimValues] : n \in 0..MaxClaims }

NoRating == [name |-> "", key |-> "", description |-> "", color |-> "", score |-> Zero]

NoText == << >>
NoAnalysis == [pending |-> TRUE]
NoResult == [outcome |-> "pending"]

InitAggregator ==
    /\ IdleServices
    /\ IdleRequests
    /\ IdleVideo
    /\ pc = "aggregate"
    /\ content = NoText
    /\ content_type = "text"
    /\ analysis_length = "standard"
    /\ fault = "none"
    /\ content_analysis = NoAnalysis
    /\ claims = << >>
    /\ result = NoResult
    /\ verified_claims \in ClaimLists
    /\ truth_rating = NoRating
    /\ calls = 0

\* truth_rating = self._evaluate_overall_truth(verified_claims)
EvaluateOverallTruth ==
    /\ pc \in {"aggregate", "rated"}
    /\ calls < MaxCalls
    /\ truth_rating' = evaluate_overall_truth(verified_claims)
    /\ calls' = calls + 1
    /\ pc' = "rated"
    /\ UNCHANGED service_vars
    /\ UNCHANGED <<request_vars, video_vars>>
    /\ UNCHANGED <<content, content_type, analysis_length, fault, content_analysis,
                   claims, verified_claims, result>>

NextAggregator == EvaluateOverallTruth

SpecAggregator == InitAggregator /\ [][NextAggregator]_vars

---------------------------------------------------------------------------
(* Claims about the aggregator, checked under SpecAggregator *)

PrimaryKeys == {"true", "mostly_true", "partly_true", "mostly_false", "false"}

\* The relevance weight the specification gives a claim: its relevance_score,
\* and 1 when it has none.
SpecWeight(claim_list, i) ==
    IF "relevance_score" \in DOMAIN claim_list[i] THEN claim_list[i].relevance_score ELSE One

\* sum(score_i * relevance_i) and sum(relevance_i) over the first n claims,
\* added as Python adds floats, in list order.
RECURSIVE SumWeightedScores(_, _)
SumWeightedScores(claim_list, n) ==
    IF n = 0 THEN Zero
    ELSE FAdd(SumWeightedScores(claim_list, n - 1),
              FMul(claim_list[n].score, SpecWeight(claim_list, n)))

RECURSIVE SumWeights(_, _)
SumWeights(claim_list, n) ==
    IF n = 0 THEN Zero ELSE FAdd(SumWeights(claim_list, n - 1), SpecWeight(claim_list, n))

RECURSIVE SumScores(_, _)
SumScores(claim_list, n) ==
    IF n = 0 THEN Zero ELSE FAdd(SumScores(claim_list, n - 1), claim_list[n].score)

Rated == pc = "rated"
NonEmpty == Len(verified_claims) > 0
TotalWeight == SumWeights(verified_claims, Len(verified_claims))

ScenarioB == << [score |-> Literal(95, 100)], [score |-> Literal(95, 100)],
                [score |-> Literal(10, 100)] >>

\* C1: for a nonempty list of verified claims with positive total relevance
\* weight the overall score is sum(score_i * relevance_i) / sum(relevance_i),
\* a claim without relevance_score weighing 1; scores {0.95, 0.95, 0.10} with
\* weights {1, 1, 1} give 2/3 (0.6667) and the rating partly_true.
C1_WeightedMean ==
    (Rated /\ NonEmpty /\ TotalWeight > 0) =>
        /\ truth_rating.score =
              FDiv(SumWeightedScores(verified_claims, Len(verified_claims)),
                   TotalWeight)
        /\ verified_claims = ScenarioB =>
              /\ truth_rating.score = Literal(2, 3)
              /\ truth_rating.key = "partly_true"

C1_Witness ==
    /\ Rated
    /\ verified_claims = ScenarioB
    /\ truth_rating.key = "partly_true"

\* C2: aggregating the empty list returns insufficient_evidence with score
\* exactly 0.5, on the first call and on every repeated call.
C2_EmptyList ==
    (Rated /\ verified_claims = << >>) =>
        truth_rating = Rating("insufficient_evidence", Half)

C2_Witness ==
    /\ Rated
    /\ verified_claims = << >>
    /\ calls = MaxCalls
    /\ truth_rating.key = "insufficient_evidence"

AllWeightsZero ==
    \A i \in 1..Len(verified_claims) :
        /\ "relevance_score" \in DOMAIN verified_claims[i]
        /\ verified_claims[i].relevance_score = Zero

\* C3 as claimed: with a nonempty list whose total relevance weight is 0 the
\* aggregator returns the unweighted mean of the claims' scores.
C3_UnweightedMeanFallback ==
    (Rated /\ NonEmpty /\ AllWeightsZero) =>
        truth_rating.score =
            FDiv(SumScores(verified_claims, Len(verified_claims)),
                 Len(verified_claims) * One)

\* C3 as amended: with a nonempty list whose total relevance weight is 0 the
\* aggregator returns, without dividing by zero, the fixed score 0.5 and the
\* rating partly_true, whatever the claims' scores are.
C3_NeutralFallback ==
    (Rated /\ NonEmpty /\ TotalWeight = Zero) =>
        /\ truth_rating.score = Half
        /\ truth_rating.key = "partly_true"

C3_Witness ==
    /\ Rated
    /\ NonEmpty
    /\ AllWeightsZero
    /\ truth_rating.score = Half
    /\ \A i \in 1..Len(verified_claims) : verified_claims[i].score = One

PrimaryRangesHolding(score) == { k \in PrimaryKeys : InRange(k, score) }

\* C4: for a nonempty list the rating key is a primary category, never a
\* special one: the primary category whose range [min, max) holds the score,
\* and when none does, partly_true if score >= 0.5 and mostly_false otherwise.
C4_PrimaryRating ==
    (Rated /\ NonEmpty) =>
        /\ truth_rating.key \in PrimaryKeys
        /\ truth_rating.key \notin SpecialKeys
        /\ PrimaryRangesHolding(truth_rating.score) # {} =>
              truth_rating.key \in PrimaryRangesHolding(truth_rating.score)
        /\ PrimaryRangesHolding(truth_rating.score) = {} =>
              truth_rating.key =
                  IF truth_rating.score >= Half THEN "partly_true" ELSE "mostly_false"
        /\ truth_rating = Rating(truth_rating.key, truth_rating.score)

C4_Witness ==
    /\ Rated
    /\ NonEmpty
    /\ PrimaryRangesHolding(truth_rating.score) = {}
    /\ truth_rating.key = "partly_true"

\* C5: every aggregate score s with 0 <= s <= 1, s = 1.0 included, lies in the
\* range of exactly one primary category as the aggregator tests it.
C5_RangesCoverUnitInterval ==
    (Rated /\ Zero <= truth_rating.score /\ truth_rating.score <= One) =>
        Cardinality(PrimaryRangesHolding(truth_rating.score)) = 1

\* The order false < mostly_false < partly_true < mostly_true < true.
RatingRank(key) ==
    CASE key = "false" -> 1
      [] key = "mostly_false" -> 2
      [] key = "partly_true" -> 3
      [] key = "mostly_true" -> 4
      [] key = "true" -> 5

\* The lists the rated list is compared with: every list of one claim.
ReferenceLists == [1..1 -> VerifiedClaimValues]

\* C29: the rating of a nonempty list is not below the rating of any
\* nonempty list whose aggregate score is not above its own, and a list
\* whose claims all have score 1.0 is rated true.
C29_RatingMonotone ==
    (Rated /\ NonEmpty) =>
        /\ \A other \in ReferenceLists :
              evaluate_overall_truth(other).score <= truth_rating.score
                  => RatingRank(evaluate_overall_truth(other).key)
                         <= RatingRank(truth_rating.key)
        /\ (\A i \in 1..Len(verified_claims) : verified_claims[i].score = One)
              => truth_rating.key = "true"

Permutations_(n) ==
    { f \in [1..n -> 1..n] : \A i, j \in 1..n : f[i] = f[j] => i = j }

Reorder(claim_list, f) == [i \in 1..Len(claim_list) |-> claim_list[f[i]]]

\* C6: the aggregator is order-independent: every permutation of the list of
\* verified claims gets the same verdict (key, name, description, color, score).
C6_OrderIndependent ==
    Rated =>
        \A f \in Permutations_(Len(verified_claims)) :
            evaluate_overall_truth(Reorder(verified_claims, f)) = truth_rating

---------------------------------------------------------------------------
(* TextAnalyzer (text_analyzer.py)                                          *)
(*                                                                         *)
(* A text is a sequence of chunks.  A chunk is a sentence, a sequence of   *)
(* whitespace-separated words, or a run of whitespace, the chunk <<" ">>.  *)

Whitespace == << " " >>

\* str.lower() on the words of the vocabulary.
Lower(word) ==
    IF word = "Praha" THEN "praha" ELSE IF word = "Chyba" THEN "chyba" ELSE word

\* re.search(pattern, sentence.lower()) for the claim_indicators (122-135), on
\* one word: "je", "podle" and "vzrostla" are among the patterns' alternatives.
MatchesIndicator(word) == Lower(word) \in {"je", "podle", "vzrostla"}

\* The same for the pattern of two words, \b(v roce|v letech)\b (133).
MatchesYearReference(sentence) ==
    \E i \in 1..(Len(sentence) - 1) :
        Lower(sentence[i]) = "v" /\ Lower(sentence[i + 1]) = "roce"

\* re.search(r'\d+', ...) on one word (146).
HasDigits(word) == word \in {"2020"}

\* re.search(r'[A-Z][a-z]+', ...) on one word (149).  "C^esko" is the word
\* whose first letter is C with a caron: the letter is not in A-Z, and no
\* other letter of the word is a capital.
HasCapitalized(word) == word \in {"Praha", "Chyba"}

IsBlank(chunk) == \A i \in 1..Len(chunk) : chunk[i] = " "

\* not text or not text.strip()  (49)
IsEmptyInput(text) == text = << >> \/ \A i \in 1..Len(text) : IsBlank(text[i])

\* _preprocess_text (91-107): whitespace runs collapse to the single space
\* between sentences, leading and trailing whitespace is stripped.
RECURSIVE preprocess_text(_)
preprocess_text(text) ==
    IF text = << >> THEN << >>
    ELSE IF IsBlank(Head(text)) THEN preprocess_text(Tail(text))
         ELSE << Head(text) >> \o preprocess_text(Tail(text))

\* sent_tokenize (60): the sentences of the cleaned text, in order.
sent_tokenize(cleaned_text) == cleaned_text

\* The relevance score of one sentence (137-158).
RelevanceScore(sentence) ==
    LET matches == \/ \E i \in 1..Len(sentence) : MatchesIndicator(sentence[i])
                   \/ MatchesYearReference(sentence)
        is_claim == IF Len(sentence) < 3 THEN FALSE ELSE matches
        contains_numbers == \E i \in 1..Len(sentence) : HasDigits(sentence[i])
        contains_proper_nouns == \E i \in 1..Len(sentence) : HasCapitalized(sentence[i])
    IN  (IF is_claim THEN 2 ELSE 0) + (IF contains_numbers THEN 1 ELSE 0)
          + (IF contains_proper_nouns THEN 1 ELSE 0)

\* _identify_claims (109-168) from the i-th sentence on; enumerate counts from 0.
RECURSIVE identify_claims_from(_, _)
identify_claims_from(sentences, i) ==
    IF i > Len(sentences) THEN << >>
    ELSE LET relevance_score == RelevanceScore(sentences[i])
             rest == identify_claims_from(sentences, i + 1)
         IN  IF relevance_score >= 1
             THEN << [ text |-> sentences[i], position |-> i - 1,
                       relevance_score |-> relevance_score ] >> \o rest
             ELSE rest

identify_claims(sentences) == identify_claims_from(sentences, 1)

\* Faulty variant: a claim is put before the claims of equal relevance.
RECURSIVE InsertByRelevance_BeforeEqual(_, _)
InsertByRelevance_BeforeEqual(sorted, claim) ==
    IF sorted = << >> THEN << claim >>
    ELSE IF Head(sorted).relevance_score > claim.relevance_score
         THEN << Head(sorted) >> \o InsertByRelevance_BeforeEqual(Tail(sorted), claim)
         ELSE << claim >> \o sorted

\* sorted(..., reverse=True) keeps the order of equal keys: a claim is put
\* behind every claim whose relevance is at least its own.
RECURSIVE InsertByRelevance(_, _)
InsertByRelevance(sorted, claim) ==
    IF sorted = << >> THEN << claim >>
    ELSE IF Head(sorted).relevance_score >= claim.relevance_score
         THEN << Head(sorted) >> \o InsertByRelevance(Tail(sorted), claim)
         ELSE << claim >> \o sorted

RECURSIVE SortedByRelevance(_, _)
SortedByRelevance(claim_list, n) ==
    IF n = 0 THEN << >>
    ELSE InsertByRelevance(SortedByRelevance(claim_list, n - 1), claim_list[n])

\* Faulty variant: the claims stay in sentence order.
prioritize_claims_Unsorted(claim_list) == claim_list

\* _prioritize_claims (170-183)
prioritize_claims(claim_list) == SortedByRelevance(claim_list, Len(claim_list))

\* _get_claims_limit (185-202)
get_claims_limit(length) ==
    CASE length = "brief" -> 3
      [] length = "standard" -> 5
      [] length = "detailed" -> 8
      [] length = "exhaustive" -> 12
      [] OTHER -> 5

RECURSIVE WordCount(_)
WordCount(sentences) ==
    IF sentences = << >> THEN 0 ELSE Len(Head(sentences)) + WordCount(Tail(sentences))

\* _create_summary (204-224)
create_text_summary(cleaned_text) ==
    LET word_count == WordCount(cleaned_text)
    IN  IF word_count <= 50 THEN << "Kratky text o delce", word_count, "slov." >>
        ELSE IF word_count <= 200
             THEN << "Text stredni delky obsahujici", word_count, "slov." >>
             ELSE << "Dlouhy text obsahujici", word_count, "slov." >>

\* prioritized_claims[:claims_limit]
Truncate(list, limit) == SubSeq(list, 1, IF Len(list) < limit THEN Len(list) ELSE limit)

\* TextAnalyzer.analyze (34-89)
analyze(text, length) ==
    IF IsEmptyInput(text)
    THEN [ error |-> "Prazdny vstupni text", claims |-> << >>,
           summary |-> << "Nebyl poskytnut zadny text k analyze." >> ]
    ELSE LET cleaned_text == preprocess_text(text)
             sentences == sent_tokenize(cleaned_text)
             claim_list == identify_claims(sentences)
             prioritized_claims == prioritize_claims(claim_list)
             selected_claims == Truncate(prioritized_claims, get_claims_limit(length))
         IN  [ claims |-> selected_claims,
               summary |-> create_text_summary(cleaned_text),
               context |-> [ total_sentences |-> Len(sentences),
                             total_claims_identified |-> Len(claim_list),
                             selected_claims |-> Len(selected_claims) ] ]

---------------------------------------------------------------------------
(* The claim extractor applied to every bounded text and every profile *)

SentenceValues ==
    { << "Praha", "2020" >>,        \* two tokens, a number and a proper noun
      << "je", "to" >>,             \* two tokens, an indicator
      << "to", "je", "dnes" >>,     \* an indicator
      << "Praha", "je", "2020" >>,  \* indicator, number and proper noun
      << "dnes", "prsi", "venku" >>, \* nothing that marks a claim
      << "v", "roce", "2020", "vzrostla" >>, \* year reference, trend verb, number
      << "C^esko", "dnes", "prsi" >> \* a proper noun that begins with a caron
    }

ChunkValues == SentenceValues \cup { Whitespace }

TextValues == UNION { [1..n -> ChunkValues] : n \in 0..MaxChunks }

\* The four profiles and a value that is none of them.
AnalysisLengths == {"brief", "standard", "detailed", "exhaustive", "other"}

InitExtractor ==
    /\ IdleServices
    /\ IdleRequests
    /\ IdleVideo
    /\ pc = "analyze"
    /\ content \in TextValues
    /\ content_type = "text"
    /\ analysis_length \in AnalysisLengths
    /\ fault = "none"
    /\ content_analysis = NoAnalysis
    /\ claims = << >>
    /\ result = NoResult
    /\ verified_claims = << >>
    /\ truth_rating = NoRating
    /\ calls = 0

\* content_analysis = self.text_analyzer.analyze(content, ..., analysis_length)
Analyze ==
    /\ pc = "analyze"
    /\ content_analysis' = analyze(content, analysis_length)
    /\ pc' = "analyzed"
    /\ calls' = calls + 1
    /\ UNCHANGED service_vars
    /\ UNCHANGED <<request_vars, video_vars>>
    /\ UNCHANGED <<content, content_type, analysis_length, fault, claims,
                   verified_claims, truth_rating, result>>

NextExtractor == Analyze

SpecExtractor == InitExtractor /\ [][NextExtractor]_vars

---------------------------------------------------------------------------
(* Claims about the claim extractor, checked under SpecExtractor *)

Analyzed == pc = "analyzed"

\* The sentences of the input text: its chunks that are not whitespace.
SentencesOf(text) == SelectSeq(text, LAMBDA chunk : ~IsBlank(chunk))

ProfileLimit(length) ==
    IF length = "brief" THEN 3
    ELSE IF length = "detailed" THEN 8
    ELSE IF length = "exhaustive" THEN 12
    ELSE 5

\* C7: for every nonempty text and every profile the returned claims are
\* sorted by non-increasing relevance score, are at most the profile's limit
\* (brief 3, standard 5, detailed 8, exhaustive 12, otherwise 5), and have
\* pairwise distinct positions, each the index of a sentence of the text
\* (the sentence that is the claim's text).
C7_SortedBoundedDistinct ==
    (Analyzed /\ content # << >>) =>
        LET claim_list == content_analysis.claims
            sentences == SentencesOf(content)
        IN  /\ \A i, j \in 1..Len(claim_list) :
                  i < j => claim_list[i].relevance_score >= claim_list[j].relevance_score
            /\ Len(claim_list) <= ProfileLimit(analysis_length)
            /\ \A i, j \in 1..Len(claim_list) :
                  claim_list[i].position = claim_list[j].position => i = j
            /\ \A i \in 1..Len(claim_list) :
                  /\ claim_list[i].position \in 0..(Len(sentences) - 1)
                  /\ sentences[claim_list[i].position + 1] = claim_list[i].text

\* Four candidate sentences under the profile brief: one is cut, and the
\* relevance scores of the kept ones differ.
C7_Witness ==
    /\ Analyzed
    /\ analysis_length = "brief"
    /\ "context" \in DOMAIN content_analysis
    /\ "total_claims_identified" \in DOMAIN content_analysis.context
    /\ content_analysis.context.total_claims_identified = 4
    /\ Len(content_analysis.claims) = 3
    /\ content_analysis.claims[1].relevance_score > content_analysis.claims[3].relevance_score

\* C8: no returned claim has a text of fewer than 3 whitespace-separated
\* tokens, whatever digits or capitalized words the sentence holds.
C8_ShortSentencesDiscarded ==
    Analyzed =>
        \A i \in 1..Len(content_analysis.claims) :
            Len(content_analysis.claims[i].text) >= 3

\* The word begins with a capital letter and has further letters.
IsCapitalizedToken(word) == word \in {"Praha", "Chyba", "C^esko"}

\* The relevance score as stated: 2 for an indicator in a sentence of at
\* least 3 tokens, 1 for a digit sequence, 1 for a capitalized token.
StatedScore(sentence) ==
    (IF Len(sentence) >= 3
        /\ (\/ \E i \in 1..Len(sentence) : MatchesIndicator(sentence[i])
            \/ MatchesYearReference(sentence))
     THEN 2 ELSE 0)
    + (IF \E i \in 1..Len(sentence) : HasDigits(sentence[i]) THEN 1 ELSE 0)
    + (IF \E i \in 1..Len(sentence) : IsCapitalizedToken(sentence[i]) THEN 1 ELSE 0)

\* A year reference, a trend verb and digits.
YearTrendDigits(sentence) ==
    /\ MatchesYearReference(sentence)
    /\ \E i \in 1..Len(sentence) : Lower(sentence[i]) = "vzrostla"
    /\ \E i \in 1..Len(sentence) : HasDigits(sentence[i])

\* C25: the sentences identified as claims are exactly those whose stated
\* score is at least 1, every returned claim carries the stated score of its
\* sentence, a value in 1..4, and a returned sentence with a year reference,
\* a trend verb and digits scores at least 3.
C25_RelevanceScore ==
    (Analyzed /\ "context" \in DOMAIN content_analysis) =>
        LET claim_list == content_analysis.claims
            sentences == SentencesOf(content)
        IN  /\ content_analysis.context.total_claims_identified =
                  Cardinality({ i \in 1..Len(sentences) : StatedScore(sentences[i]) >= 1 })
            /\ \A i \in 1..Len(claim_list) :
                  /\ claim_list[i].relevance_score = StatedScore(claim_list[i].text)
                  /\ claim_list[i].relevance_score \in 1..4
                  /\ YearTrendDigits(claim_list[i].text) =>
                        claim_list[i].relevance_score >= 3

\* Positions of the sentences that _identify_claims scores at least 1.
Candidates ==
    { i \in 1..Len(SentencesOf(content)) : RelevanceScore(SentencesOf(content)[i]) >= 1 }

\* C26: among the returned claims, of two with the same relevance score the
\* one of the earlier sentence comes first, and no candidate is left out
\* while a returned claim has a strictly lower relevance score.
C26_StableAndGreedy ==
    (Analyzed /\ "context" \in DOMAIN content_analysis) =>
        LET claim_list == content_analysis.claims
            sentences == SentencesOf(content)
            kept == { claim_list[i].position + 1 : i \in 1..Len(claim_list) }
        IN  /\ \A i, j \in 1..Len(claim_list) :
                  (i < j /\ claim_list[i].relevance_score = claim_list[j].relevance_score)
                      => claim_list[i].position < claim_list[j].position
            /\ \A dropped \in Candidates \ kept :
                  \A i \in 1..Len(claim_list) :
                      claim_list[i].relevance_score >= RelevanceScore(sentences[dropped])

\* Four candidates under the profile brief: the two sentences of score 2
\* are returned in their order, behind a later sentence of score 4, and the
\* last sentence of score 2 is left out.
C26_Witness ==
    /\ Analyzed
    /\ analysis_length = "brief"
    /\ content = << << "Praha", "2020" >>, << "Praha", "2020" >>,
                    << "Praha", "je", "2020" >>, << "Praha", "2020" >> >>
    /\ Len(content_analysis.claims) = 3
    /\ content_analysis.claims[2].position = 0
    /\ content_analysis.claims[3].position = 1

---------------------------------------------------------------------------
(* FactChecker.check_facts (fact_checker.py 102-187) and its steps          *)
(*                                                                         *)
(* language and expertise_level only select wording and are left out.      *)

ContentTypes == {"text", "image", "audio", "video", "pdf"}

\* The steps of the try block, in order.
Steps ==
    << "analyze_content", "extract_claims", "verify_claims",
       "evaluate_overall_truth", "evaluate_sources", "build_result" >>

StepSet == { Steps[i] : i \in 1..Len(Steps) }

\* What an image, audio or video analyzer can read from a file: nothing, or
\* one sentence.
MediaTexts == { << >>, << << "Praha", "je", "2020" >> >> }

\* The string _extract_text returns when OCR fails (image_analyzer.py 160).
OcrFailure == << << "Chyba", "pri", "extrakci", "textu" >> >>

\* The string _transcribe_speech returns when the transcription fails
\* (audio_analyzer.py 207).
TranscriptionFailure == << << "Chyba", "pri", "transkripci", "reci" >> >>

\* The extracted_text of an analysed image: the text read, or the failure string.
ExtractedTexts == MediaTexts \cup { OcrFailure }

\* The transcription of an analysed recording: the speech recognised, or the
\* failure string.
Transcriptions == MediaTexts \cup { TranscriptionFailure }

\* _identify_visual_elements' results (image_analyzer.py 162-227).
VisualElementLists ==
    { << >>,
      << [type |-> "unknown", confidence |-> Zero] >>,
      << [type |-> "graph", confidence |-> Literal(7, 10)] >> }

\* ImageAnalyzer.analyze (image_analyzer.py 40-98)
ImageAnalyses ==
    { [ error |-> "Nepodarilo se nacist obrazek", extracted_text |-> << >>,
        visual_elements |-> << >>, summary |-> << "Obrazek nelze analyzovat." >> ] }
    \cup { [ extracted_text |-> t, visual_elements |-> v,
             summary |-> << "Obrazek" >> ] :
           t \in ExtractedTexts, v \in VisualElementLists }

\* AudioAnalyzer.analyze (audio_analyzer.py 47-112)
AudioAnalyses ==
    { [ error |-> "Nepodarilo se nacist audio soubor", transcription |-> << >>,
        summary |-> << "Audio nelze analyzovat." >> ] }
    \cup { [ transcription |-> t, summary |-> << "Audio" >> ] : t \in Transcriptions }

\* VideoAnalyzer.analyze (video_analyzer.py 42-116)
VideoAnalyses ==
    { [ error |-> "Nepodarilo se nacist video soubor", transcription |-> << >>,
        key_frames |-> << >>, summary |-> << "Video nelze analyzovat." >> ] }
    \cup { [ key_frames |-> k, audio_analysis |-> a, summary |-> << "Video" >> ] :
           k \in { << >> } \cup
                 { << [timestamp |-> 1, analysis |-> [extracted_text |-> t]] >> :
                     t \in ExtractedTexts },
           a \in { [ error |-> "Nepodarilo se extrahovat audio stopu",
                     transcription |-> << >> ] }
                 \cup { [transcription |-> t] : t \in Transcriptions } }

SupportedTypes == {"text", "image", "audio", "video"}

\* _analyze_content (189-212): the analyses the analyzer of the content type
\* can return; none for an unsupported type, which raises ValueError.
analyze_content(text, type, length) ==
    CASE type = "text" -> { analyze(text, length) }
      [] type = "image" -> ImageAnalyses
      [] type = "audio" -> AudioAnalyses
      [] type = "video" -> VideoAnalyses
      [] OTHER -> { }

\* A TextAnalyzer claim's relevance_score is a Python int; line 374 multiplies
\* it with a float, which promotes it.  The model promotes it where the claim
\* enters FactChecker.
Promote(claim_list) ==
    [ i \in 1..Len(claim_list) |->
        [ claim_list[i] EXCEPT !.relevance_score = @ * One ] ]

\* self.text_analyzer.analyze(text) followed by "if 'claims' in text_analysis".
TextClaims(text) ==
    LET text_analysis == analyze(text, "standard")
    IN  IF "claims" \in DOMAIN text_analysis THEN Promote(text_analysis.claims) ELSE << >>

\* Lines 240-247.
VisualClaims(elements) ==
    [ i \in 1..Len(elements) |->
        [ text |-> << "Obrazek", "obsahuje", elements[i].type >>,
          position |-> -1,
          relevance_score |->
              IF "confidence" \in DOMAIN elements[i] THEN elements[i].confidence ELSE Half,
          visual_element |-> TRUE ] ]

\* Lines 266-276, from the i-th key frame on.
RECURSIVE FrameClaims(_, _)
FrameClaims(frames, i) ==
    IF i > Len(frames) THEN << >>
    ELSE LET frame == frames[i]
             found == IF /\ "analysis" \in DOMAIN frame
                         /\ "extracted_text" \in DOMAIN frame.analysis
                         /\ frame.analysis.extracted_text # << >>
                      THEN TextClaims(frame.analysis.extracted_text)
                      ELSE << >>
             stamped == [ j \in 1..Len(found) |->
                            [ k \in DOMAIN found[j] \cup {"timestamp"} |->
                                IF k = "timestamp" THEN frame.timestamp ELSE found[j][k] ] ]
         IN  stamped \o FrameClaims(frames, i + 1)

\* _extract_claims (214-278)
extract_claims(analysis, type) ==
    CASE type = "text" ->
            IF "claims" \in DOMAIN analysis THEN Promote(analysis.claims) ELSE << >>
      [] type = "image" ->
            (IF "extracted_text" \in DOMAIN analysis /\ analysis.extracted_text # << >>
             THEN TextClaims(analysis.extracted_text) ELSE << >>)
            \o (IF "visual_elements" \in DOMAIN analysis
                THEN VisualClaims(analysis.visual_elements) ELSE << >>)
      [] type = "audio" ->
            IF "transcription" \in DOMAIN analysis /\ analysis.transcription # << >>
            THEN TextClaims(analysis.transcription) ELSE << >>
      [] type = "video" ->
            (IF /\ "audio_analysis" \in DOMAIN analysis
                /\ "transcription" \in DOMAIN analysis.audio_analysis
                /\ analysis.audio_analysis.transcription # << >>
             THEN TextClaims(analysis.audio_analysis.transcription) ELSE << >>)
            \o (IF "key_frames" \in DOMAIN analysis
                THEN FrameClaims(analysis.key_frames, 1) ELSE << >>)
      [] OTHER -> << >>

\* random.random(): a float in [0.0, 1.0); its least value and its greatest,
\* the float next below 1.0.
RandomValues == { Zero, One - Pow2(FracBits - Precision) }

\* random.uniform(a, b) is a + (b - a) * self.random()
uniform(a, b, u) == FAdd(a, FMul(FSub(b, a), u))

\* random.uniform(score_min, score_max) (322): the rounding of the sum can
\* return score_max.
UniformDraws(score_min, score_max) ==
    { uniform(score_min, score_max, u) : u \in RandomValues }

\* The keys of the probabilities dictionary (302-308).
RatingChoices == {"true", "mostly_true", "partly_true", "mostly_false", "false"}

\* random.choices over the keys (311-315) and the score drawn in the key's
\* range (321-322).
RatingDraws ==
    UNION { { << key, score >> :
                score \in UniformDraws(truth_scale[key].score_range[1],
                                       truth_scale[key].score_range[2]) } :
            key \in RatingChoices }

\* Faulty variant: the fields of the originating claim are not copied.
VerifiedClaim_DropsClaimFields(claim, draw) ==
    [ text |-> claim.text, rating |-> truth_scale[draw[1]].name,
      rating_key |-> draw[1], score |-> draw[2],
      color |-> truth_scale[draw[1]].color ]

\* The verified claim built for one claim and one draw (328-341).  Its
\* explanation and sources are wording and simulated references; the sources
\* are modelled with _identify_sources below.
VerifiedClaim(claim, draw) ==
    LET verified_claim ==
            [ text |-> claim.text, rating |-> truth_scale[draw[1]].name,
              rating_key |-> draw[1], score |-> draw[2],
              color |-> truth_scale[draw[1]].color ]
    IN  [ k \in DOMAIN verified_claim \cup DOMAIN claim |->
            IF k \in DOMAIN verified_claim THEN verified_claim[k] ELSE claim[k] ]

\* _verify_claims (280-345): the lists it can return for a list of claims,
\* one draw for each claim, the results appended in the claims' order.
verify_claims(claim_list) ==
    { [ i \in 1..Len(claim_list) |-> VerifiedClaim(claim_list[i], draws[i]) ] :
        draws \in [1..Len(claim_list) -> RatingDraws] }

\* _create_summary (591-617)
create_summary(analysis, verified, type) ==
    CASE type = "text" ->
            IF "summary" \in DOMAIN analysis THEN analysis.summary
            ELSE << "Analyza textoveho obsahu s", Len(verified), "tvrzenimi." >>
      [] type = "image" -> << "Analyza obrazoveho obsahu s", Len(verified), "tvrzenimi." >>
      [] type = "audio" -> << "Analyza audio obsahu s", Len(verified), "tvrzenimi." >>
      [] type = "video" -> << "Analyza video obsahu s", Len(verified), "tvrzenimi." >>
      [] OTHER -> << "Analyza obsahu s", Len(verified), "tvrzenimi." >>

\* The dictionary of lines 150-176.
Report(type, length, analysis, verified, rating) ==
    [ id |-> "uuid4", timestamp |-> "now", content_type |-> type,
      content_summary |-> create_summary(analysis, verified, type),
      truth_rating |-> rating.name, truth_score |-> rating.score,
      truth_color |-> rating.color, truth_description |-> rating.description,
      analysis |-> [claims |-> verified],
      settings |-> [analysis_length |-> length] ]

\* Faulty variant: the except clause lets the exception through.
check_facts_except_Reraise(exception) ==
    [ outcome |-> "raised", exception |-> exception ]

\* The except clause of lines 181-187: every Exception ends in a returned
\* dictionary.
check_facts_except(exception) ==
    [ outcome |-> "returned",
      value |-> [ error |-> << "Chyba pri fact-checkingu", exception >>,
                  id |-> "uuid4", timestamp |-> "now" ] ]

---------------------------------------------------------------------------
(* check_facts called on every bounded content, content type and profile,  *)
(* with no failing collaborator or with one failing in a chosen step       *)

ContentChunks ==
    { Whitespace, << "Praha", "2020" >>, << "to", "je", "dnes" >>,
      << "dnes", "prsi", "venku" >> }

ContentTexts == UNION { [1..n -> ContentChunks] : n \in 0..MaxContentChunks }

\* The path of an uploaded file.
MediaPath == << << "upload" >> >>

InitCheckFacts ==
    /\ IdleServices
    /\ IdleRequests
    /\ IdleVideo
    /\ pc = "analyze_content"
    /\ content_type \in ContentTypes
    /\ content \in IF content_type = "text" THEN ContentTexts ELSE { MediaPath }
    /\ analysis_length \in {"brief", "standard"}
    /\ fault \in StepSet \cup {"none"}
    /\ content_analysis = NoAnalysis
    /\ claims = << >>
    /\ verified_claims = << >>
    /\ truth_rating = NoRating
    /\ result = NoResult
    /\ calls = 0

\* An exception raised inside the try block reaches the except clause.
Raise(exception) ==
    /\ result' = check_facts_except(exception)
    /\ pc' = "returned"
    /\ UNCHANGED service_vars
    /\ UNCHANGED <<request_vars, video_vars>>
    /\ UNCHANGED <<content, content_type, analysis_length, fault, content_analysis,
                   claims, verified_claims, truth_rating, calls>>

\* Line 123.
AnalyzeContent ==
    /\ pc = "analyze_content"
    /\ \/ /\ fault = "analyze_content"
          /\ Raise("analyzer failure")
       \/ /\ fault # "analyze_content"
          /\ content_type \notin SupportedTypes
          /\ Raise("ValueError: Nepodporovany typ obsahu")
       \/ /\ fault # "analyze_content"
          /\ \E analysis \in analyze_content(content, content_type, analysis_length) :
                content_analysis' = analysis
          /\ pc' = "extract_claims"
          /\ UNCHANGED service_vars
          /\ UNCHANGED <<request_vars, video_vars>>
          /\ UNCHANGED <<content, content_type, analysis_length, fault, claims,
                         verified_claims, truth_rating, result, calls>>

\* Line 126.
ExtractClaims ==
    /\ pc = "extract_claims"
    /\ \/ /\ fault = "extract_claims"
          /\ Raise("extraction failure")
       \/ /\ fault # "extract_claims"
          /\ claims' = extract_claims(content_analysis, content_type)
          /\ pc' = "verify_claims"
          /\ UNCHANGED service_vars
          /\ UNCHANGED <<request_vars, video_vars>>
          /\ UNCHANGED <<content, content_type, analysis_length, fault,
                         content_analysis, verified_claims, truth_rating, result, calls>>

\* Line 129: _verify_claims (280-345), one draw for each claim.
VerifyClaims ==
    /\ pc = "verify_claims"
    /\ \/ /\ fault = "verify_claims"
          /\ Raise("verification failure")
       \/ /\ fault # "verify_claims"
          /\ verified_claims' \in verify_claims(claims)
          /\ pc' = "evaluate_overall_truth"
          /\ UNCHANGED service_vars
          /\ UNCHANGED <<request_vars, video_vars>>
          /\ UNCHANGED <<content, content_type, analysis_length, fault,
                         content_analysis, claims, truth_rating, result, calls>>

\* Line 132.
RateContent ==
    /\ pc = "evaluate_overall_truth"
    /\ \/ /\ fault = "evaluate_overall_truth"
          /\ Raise("aggregation failure")
       \/ /\ fault # "evaluate_overall_truth"
          /\ truth_rating' = evaluate_overall_truth(verified_claims)
          /\ pc' = "evaluate_sources"
          /\ UNCHANGED service_vars
          /\ UNCHANGED <<request_vars, video_vars>>
          /\ UNCHANGED <<content, content_type, analysis_length, fault,
                         content_analysis, claims, verified_claims, result, calls>>

\* Lines 135-138: _identify_sources and _evaluate_sources.
EvaluateSources ==
    /\ pc = "evaluate_sources"
    /\ \/ /\ fault = "evaluate_sources"
          /\ Raise("source evaluation failure")
       \/ /\ fault # "evaluate_sources"
          /\ pc' = "build_result"
          /\ UNCHANGED service_vars
          /\ UNCHANGED <<request_vars, video_vars>>
          /\ UNCHANGED <<content, content_type, analysis_length, fault,
                         content_analysis, claims, verified_claims, truth_rating,
                         result, calls>>

\* Lines 141-179: perspectives, responses, summary and the returned report.
BuildResult ==
    /\ pc = "build_result"
    /\ \/ /\ fault = "build_result"
          /\ Raise("report failure")
       \/ /\ fault # "build_result"
          /\ result' = [ outcome |-> "returned",
                         value |-> Report(content_type, analysis_length,
                                          content_analysis, verified_claims,
                                          truth_rating) ]
          /\ pc' = "returned"
          /\ UNCHANGED service_vars
          /\ UNCHANGED <<request_vars, video_vars>>
          /\ UNCHANGED <<content, content_type, analysis_length, fault,
                         content_analysis, claims, verified_claims, truth_rating,
                         calls>>

NextCheckFacts ==
    \/ AnalyzeContent
    \/ ExtractClaims
    \/ VerifyClaims
    \/ RateContent
    \/ EvaluateSources
    \/ BuildResult

SpecCheckFacts == InitCheckFacts /\ [][NextCheckFacts]_vars

---------------------------------------------------------------------------
(* Claims about check_facts, checked under SpecCheckFacts *)

Returned == pc = "returned"

\* An empty or whitespace-only text.
BlankText(text) ==
    \A i \in 1..Len(text) : \A j \in 1..Len(text[i]) : text[i][j] = " "

\* C9: for an empty or whitespace-only text the extractor returns an empty
\* claim list, and check_facts (no collaborator failing) returns a report
\* with no claims whose verdict is insufficient_evidence with score 0.5.
C9_BlankTextReport ==
    (content_type = "text" /\ BlankText(content) /\ fault = "none") =>
        /\ content_analysis # NoAnalysis =>
              /\ "claims" \in DOMAIN content_analysis
              /\ content_analysis.claims = << >>
        /\ Returned =>
              /\ result.outcome = "returned"
              /\ "error" \notin DOMAIN result.value
              /\ result.value.analysis.claims = << >>
              /\ result.value.truth_rating = truth_scale["insufficient_evidence"].name
              /\ result.value.truth_score = Half

C9_Witness ==
    /\ Returned
    /\ content_type = "text"
    /\ content = << Whitespace, Whitespace >>
    /\ fault = "none"
    /\ "truth_rating" \in DOMAIN result.value
    /\ result.value.truth_rating = truth_scale["insufficient_evidence"].name

\* C10: check_facts never propagates an exception: whatever the content, the
\* content type (an unsupported one included) and the step that fails, it
\* ends by returning a dictionary.
C10_NeverPropagates ==
    /\ result.outcome \in {"pending", "returned"}
    /\ Returned =>
          /\ result.outcome = "returned"
          /\ "id" \in DOMAIN result.value
    /\ (~Returned) => result.outcome = "pending"

C10_Witness ==
    /\ Returned
    /\ fault = "evaluate_sources"
    /\ content_type = "image"
    /\ result.outcome = "returned"
    /\ "error" \in DOMAIN result.value

\* The value returned is a report: it carries the verdict fields of lines
\* 150-176.
ReportShaped(value) ==
    {"truth_rating", "truth_score", "truth_color", "truth_description"}
        \subseteq DOMAIN value

\* C11: when a step of check_facts fails, the returned value carries, with
\* its error field, the overall verdict insufficient_evidence.
C11_ErrorReportShaped ==
    (Returned /\ "error" \in DOMAIN result.value) =>
        /\ ReportShaped(result.value)
        /\ result.value.truth_rating = truth_scale["insufficient_evidence"].name

\* The failure strings of the analyzers.
FailureMessages == { OcrFailure[1], TranscriptionFailure[1] }

\* C12: a failed OCR or transcription yields no claim: no claim extracted,
\* verified or reported has an analyzer's failure string as its text.
C12_FailureYieldsNoClaims ==
    /\ \A i \in 1..Len(claims) : claims[i].text \notin FailureMessages
    /\ \A i \in 1..Len(verified_claims) :
          verified_claims[i].text \notin FailureMessages

\* _verify_claims has returned and check_facts has not.
Verified == pc \in {"evaluate_overall_truth", "evaluate_sources", "build_result"}

\* The scores of the verified claims weighted by the relevance of the
\* claims they were computed for.
WeightedByOrigin ==
    [ i \in 1..Len(verified_claims) |->
        [ score |-> verified_claims[i].score,
          relevance_score |-> claims[i].relevance_score ] ]

\* C13: _verify_claims returns one verified claim for each claim, the i-th
\* with the text, position and relevance_score of the i-th claim, and the
\* overall rating weighs each score with its originating claim's relevance.
C13_ResultsAttachedToClaims ==
    /\ Verified =>
          /\ Len(verified_claims) = Len(claims)
          /\ \A i \in 1..Len(claims) :
                /\ {"text", "position", "relevance_score", "score"}
                      \subseteq DOMAIN verified_claims[i]
                /\ verified_claims[i].text = claims[i].text
                /\ verified_claims[i].position = claims[i].position
                /\ verified_claims[i].relevance_score = claims[i].relevance_score
    /\ pc \in {"evaluate_sources", "build_result"} =>
          truth_rating = evaluate_overall_truth(WeightedByOrigin)

\* Two claims of different relevance have been verified and rated.
C13_Witness ==
    /\ pc = "build_result"
    /\ Len(claims) = 2
    /\ Len(verified_claims) = 2
    /\ claims[1].relevance_score # claims[2].relevance_score
    /\ claims[1].text # claims[2].text
    /\ verified_claims[1].score # verified_claims[2].score

\* C30: every verified claim has a primary rating key and a score in [0, 1]
\* that lies in the score range of its key, and the range test of the
\* aggregator maps the score to the claim's own rating key.
C30_ScoreWithinOwnRange ==
    Verified =>
        \A i \in 1..Len(verified_claims) :
            LET key == verified_claims[i].rating_key
                score == verified_claims[i].score
            IN  /\ key \in PrimaryKeys
                /\ Zero <= score /\ score <= One
                /\ truth_scale[key].score_range[1] <= score
                /\ score <= truth_scale[key].score_range[2]
                /\ RatingKey(score) = key

\* C14: verification is deterministic: every list _verify_claims can return
\* for the claims at hand is the one it returned, so that two runs on the
\* same input agree on every claim's rating key and score.
C14_Deterministic ==
    Verified => \A other \in verify_claims(claims) : other = verified_claims

---------------------------------------------------------------------------
(* FactChecker._identify_sources (fact_checker.py 410-435)                 *)
(*                                                                         *)
(* A URL is a sequence of tokens: the scheme with its colon ("https:"),    *)
(* the authority marker "//", the labels of the host, which dots separate, *)
(* and a path ("/report").                                                 *)

MaxVerified == 2

\* possible_sources of _simulate_sources (760-793)
possible_sources ==
    << [ name |-> "Cesky statisticky urad",
         url |-> << "https:", "//", "www", "czso", "cz" >>,
         reliability |-> "Velmi vysoka" ],
       [ name |-> "Ministerstvo zdravotnictvi CR",
         url |-> << "https:", "//", "www", "mzcr", "cz" >>,
         reliability |-> "Vysoka" ],
       [ name |-> "CT24",
         url |-> << "https:", "//", "ct24", "ceskatelevize", "cz" >>,
         reliability |-> "Vysoka" ],
       [ name |-> "iROZHLAS",
         url |-> << "https:", "//", "www", "irozhlas", "cz" >>,
         reliability |-> "Vysoka" ],
       [ name |-> "Aktualne.cz",
         url |-> << "https:", "//", "www", "aktualne", "cz" >>,
         reliability |-> "Stredni" ] >>

\* random.sample(possible_sources, min(count, len(possible_sources))) with
\* count = 2 (798-802): two different sources, in either order.
simulate_sources ==
    { << possible_sources[i], possible_sources[j] >> :
        << i, j >> \in { p \in (1..Len(possible_sources)) \X (1..Len(possible_sources)) :
                          p[1] # p[2] } }

\* Lines 421-424, from the i-th verified claim on.
RECURSIVE AllSources(_, _)
AllSources(verified, i) ==
    IF i > Len(verified) THEN << >>
    ELSE (IF "sources" \in DOMAIN verified[i] THEN verified[i].sources ELSE << >>)
         \o AllSources(verified, i + 1)

\* Lines 427-433, from the i-th source on.
RECURSIVE UniqueSources(_, _, _)
UniqueSources(all_sources, i, seen_urls) ==
    IF i > Len(all_sources) THEN << >>
    ELSE IF all_sources[i].url \notin seen_urls
         THEN << all_sources[i] >>
              \o UniqueSources(all_sources, i + 1, seen_urls \cup { all_sources[i].url })
         ELSE UniqueSources(all_sources, i + 1, seen_urls)

\* Faulty variant: the duplicates are kept.
identify_sources_KeepDuplicates(verified) == AllSources(verified, 1)

\* _identify_sources (410-435)
identify_sources(verified) == UniqueSources(AllSources(verified, 1), 1, { })

\* Verified claims as _verify_claims builds them, with their simulated
\* sources, and verified claims that carry no sources.
SourcedClaimValues ==
    { [ text |-> << "to", "je", "dnes" >>, score |-> Half ] }
    \cup { [ text |-> << "to", "je", "dnes" >>, score |-> Half, sources |-> sample ] :
             sample \in simulate_sources }

SourcedClaimLists == UNION { [1..n -> SourcedClaimValues] : n \in 0..MaxVerified }

InitSources ==
    /\ IdleRequests
    /\ IdleVideo
    /\ pc = "identify_sources"
    /\ verified_claims \in SourcedClaimLists
    /\ sources = << >>
    /\ source_url = << >>
    /\ expertise_level = "medium"
    /\ today = 0
    /\ response = << >>
    /\ content = NoText
    /\ content_type = "text"
    /\ analysis_length = "standard"
    /\ fault = "none"
    /\ content_analysis = NoAnalysis
    /\ claims = << >>
    /\ truth_rating = NoRating
    /\ result = NoResult
    /\ calls = 0

\* sources = self._identify_sources(verified_claims)  (135)
IdentifySources ==
    /\ pc = "identify_sources"
    /\ sources' = identify_sources(verified_claims)
    /\ pc' = "identified"
    /\ calls' = calls + 1
    /\ UNCHANGED <<request_vars, video_vars>>
    /\ UNCHANGED <<content, content_type, analysis_length, fault, content_analysis,
                   claims, verified_claims, truth_rating, result,
                   source_url, expertise_level, today, response>>

NextSources == IdentifySources

SpecSources == InitSources /\ [][NextSources]_vars

---------------------------------------------------------------------------
(* Claims about _identify_sources, checked under SpecSources *)

Identified == pc = "identified"

\* The places <<c, k>> of the sources referenced by the verified claims: the
\* k-th source of the c-th claim.
References ==
    { << c, k >> \in (1..Len(verified_claims)) \X (1..2) :
        /\ "sources" \in DOMAIN verified_claims[c]
        /\ k \in 1..Len(verified_claims[c].sources) }

Referenced(ref) == verified_claims[ref[1]].sources[ref[2]]

\* ref comes before other in claim order.
Earlier(ref, other) ==
    \/ ref[1] < other[1]
    \/ ref[1] = other[1] /\ ref[2] < other[2]

\* The first place where the url is referenced.
FirstReference(url) ==
    CHOOSE ref \in References :
        /\ Referenced(ref).url = url
        /\ \A other \in References :
              Referenced(other).url = url => (other = ref \/ Earlier(ref, other))

\* C15: _identify_sources returns a list in which no two entries share a
\* url, which holds every url a verified claim references, and whose entries
\* are the first occurrences of their urls, in claim order.
C15_SourcesDeduplicated ==
    Identified =>
        /\ \A i, j \in 1..Len(sources) : sources[i].url = sources[j].url => i = j
        /\ \A ref \in References :
              \E i \in 1..Len(sources) : sources[i].url = Referenced(ref).url
        /\ \A i \in 1..Len(sources) :
              /\ \E ref \in References : Referenced(ref).url = sources[i].url
              /\ sources[i] = Referenced(FirstReference(sources[i].url))
        /\ \A i, j \in 1..Len(sources) :
              i < j => Earlier(FirstReference(sources[i].url),
                               FirstReference(sources[j].url))

\* Two verified claims share one of their urls: three sources are returned
\* for four references.
C15_Witness ==
    /\ Identified
    /\ Cardinality(References) = 4
    /\ Len(sources) = 3

---------------------------------------------------------------------------
(* SourceEvaluator (source_evaluator.py)                                    *)
(*                                                                         *)
(* The descriptions of the factors are wording and are left out.           *)

\* Python's None.
None == [ none |-> TRUE ]

IsPath(token) == token \in { "/report" }

\* The tokens of url from the i-th on, up to the path.
RECURSIVE Authority(_, _)
Authority(url, i) ==
    IF i > Len(url) \/ IsPath(url[i]) THEN << >>
    ELSE << url[i] >> \o Authority(url, i + 1)

\* urlparse(url): the scheme is what precedes the colon, the netloc what
\* follows "//" up to the path; without "//" there is no netloc.
urlparse(url) ==
    LET has_scheme == Len(url) > 0 /\ url[1] = "https:"
        rest == IF has_scheme THEN Tail(url) ELSE url
    IN  [ scheme |-> IF has_scheme THEN "https" ELSE "",
          netloc |-> IF Len(rest) > 0 /\ rest[1] = "//"
                     THEN Authority(rest, 2) ELSE << >> ]

\* _is_valid_url (260-274): all([result.scheme, result.netloc])
is_valid_url(url) ==
    LET parsed == urlparse(url)
    IN  parsed.scheme # "" /\ parsed.netloc # << >>

\* _extract_domain (276-296)
extract_domain(url) ==
    LET domain == urlparse(url).netloc
    IN  IF Len(domain) > 1 /\ domain[1] = "www" THEN Tail(domain) ELSE domain

\* domain.endswith('.' + suffix) for a suffix of one label.
EndsWith(domain, suffix) == Len(domain) > 1 /\ domain[Len(domain)] = suffix

\* domain.endswith('.ac.uk')
EndsWithAcUk(domain) ==
    Len(domain) > 2 /\ domain[Len(domain) - 1] = "ac" /\ domain[Len(domain)] = "uk"

\* _load_trusted_sources_db (298-476): the entries' description is left out.
trusted_sources_db ==
    (<< "ct24", "ceskatelevize", "cz" >> :>
        [ name |-> "CT24", type |-> "news", reliability |-> Literal(85, 100),
          expertise |-> Literal(80, 100), transparency |-> Literal(90, 100),
          independence |-> Literal(85, 100), editorial_process |-> Literal(90, 100) ])
    @@ (<< "irozhlas", "cz" >> :>
        [ name |-> "iROZHLAS", type |-> "news", reliability |-> Literal(85, 100),
          expertise |-> Literal(80, 100), transparency |-> Literal(90, 100),
          independence |-> Literal(85, 100), editorial_process |-> Literal(90, 100) ])
    @@ (<< "denik", "cz" >> :>
        [ name |-> "Denik", type |-> "news", reliability |-> Literal(75, 100),
          expertise |-> Literal(70, 100), transparency |-> Literal(75, 100),
          independence |-> Literal(70, 100), editorial_process |-> Literal(75, 100) ])
    @@ (<< "idnes", "cz" >> :>
        [ name |-> "iDNES", type |-> "news", reliability |-> Literal(70, 100),
          expertise |-> Literal(75, 100), transparency |-> Literal(70, 100),
          independence |-> Literal(60, 100), editorial_process |-> Literal(75, 100) ])
    @@ (<< "aktualne", "cz" >> :>
        [ name |-> "Aktualne.cz", type |-> "news", reliability |-> Literal(80, 100),
          expertise |-> Literal(75, 100), transparency |-> Literal(80, 100),
          independence |-> Literal(75, 100), editorial_process |-> Literal(80, 100) ])
    @@ (<< "seznamzpravy", "cz" >> :>
        [ name |-> "Seznam Zpravy", type |-> "news", reliability |-> Literal(75, 100),
          expertise |-> Literal(70, 100), transparency |-> Literal(75, 100),
          independence |-> Literal(70, 100), editorial_process |-> Literal(75, 100) ])
    @@ (<< "vedavyzkum", "cz" >> :>
        [ name |-> "Vedavyzkum.cz", type |-> "academic", reliability |-> Literal(90, 100),
          expertise |-> Literal(95, 100), transparency |-> Literal(85, 100),
          independence |-> Literal(90, 100), editorial_process |-> Literal(85, 100) ])
    @@ (<< "osel", "cz" >> :>
        [ name |-> "OSEL.cz", type |-> "academic", reliability |-> Literal(85, 100),
          expertise |-> Literal(90, 100), transparency |-> Literal(80, 100),
          independence |-> Literal(85, 100), editorial_process |-> Literal(80, 100) ])
    @@ (<< "sciencemag", "org" >> :>
        [ name |-> "Science", type |-> "academic", reliability |-> Literal(95, 100),
          expertise |-> Literal(98, 100), transparency |-> Literal(90, 100),
          independence |-> Literal(90, 100), editorial_process |-> Literal(95, 100) ])
    @@ (<< "nature", "com" >> :>
        [ name |-> "Nature", type |-> "academic", reliability |-> Literal(95, 100),
          expertise |-> Literal(98, 100), transparency |-> Literal(90, 100),
          independence |-> Literal(90, 100), editorial_process |-> Literal(95, 100) ])
    @@ (<< "mzcr", "cz" >> :>
        [ name |-> "Ministerstvo zdravotnictvi CR", type |-> "government", reliability |-> Literal(90, 100),
          expertise |-> Literal(85, 100), transparency |-> Literal(80, 100),
          independence |-> Literal(70, 100), editorial_process |-> Literal(85, 100) ])
    @@ (<< "czso", "cz" >> :>
        [ name |-> "Cesky statisticky urad", type |-> "government", reliability |-> Literal(95, 100),
          expertise |-> Literal(90, 100), transparency |-> Literal(85, 100),
          independence |-> Literal(85, 100), editorial_process |-> Literal(90, 100) ])
    @@ (<< "europa", "eu" >> :>
        [ name |-> "Evropska unie", type |-> "government", reliability |-> Literal(90, 100),
          expertise |-> Literal(85, 100), transparency |-> Literal(80, 100),
          independence |-> Literal(75, 100), editorial_process |-> Literal(85, 100) ])
    @@ (<< "demagog", "cz" >> :>
        [ name |-> "Demagog.cz", type |-> "fact_checking", reliability |-> Literal(85, 100),
          expertise |-> Literal(80, 100), transparency |-> Literal(90, 100),
          independence |-> Literal(85, 100), editorial_process |-> Literal(85, 100) ])
    @@ (<< "factcheck", "org" >> :>
        [ name |-> "FactCheck.org", type |-> "fact_checking", reliability |-> Literal(90, 100),
          expertise |-> Literal(85, 100), transparency |-> Literal(90, 100),
          independence |-> Literal(85, 100), editorial_process |-> Literal(90, 100) ])
    @@ (<< "snopes", "com" >> :>
        [ name |-> "Snopes", type |-> "fact_checking", reliability |-> Literal(85, 100),
          expertise |-> Literal(80, 100), transparency |-> Literal(85, 100),
          independence |-> Literal(80, 100), editorial_process |-> Literal(85, 100) ])

\* _load_problematic_sources_db (478-505): issues and description are left out.
problematic_sources_db ==
    (<< "example-fake-news", "com" >> :>
        [ name |-> "Example Fake News", type |-> "fake_news", reliability |-> Literal(10, 100) ])
    @@ (<< "conspiracy-theories", "org" >> :>
        [ name |-> "Conspiracy Theories", type |-> "conspiracy", reliability |-> Literal(15, 100) ])

\* _check_trusted_sources_db (507-517)
check_trusted_sources_db(domain) ==
    IF domain \in DOMAIN trusted_sources_db THEN trusted_sources_db[domain] ELSE None

\* _check_problematic_sources_db (519-529)
check_problematic_sources_db(domain) ==
    IF domain \in DOMAIN problematic_sources_db
    THEN problematic_sources_db[domain] ELSE None

\* _fetch_page_metadata (531-561): the same metadata for every page; its
\* dates are fixed, so that the page's age is the clock's distance from them.
fetch_page_metadata(url) ==
    [ site_name |-> "Priklad nazvu webu", description |-> "Priklad popisu stranky",
      published_date |-> "2023-01-01", modified_date |-> "2023-01-02",
      has_citations |-> TRUE, has_author_info |-> TRUE, has_about_page |-> TRUE,
      has_contact_info |-> TRUE, has_privacy_policy |-> TRUE,
      has_terms_of_service |-> TRUE, has_funding_info |-> TRUE ]

\* max(0.0, min(1.0, score))
Clamp(score) == IF score > One THEN One ELSE IF score < Zero THEN Zero ELSE score

\* _evaluate_expertise (563-593)
evaluate_expertise(domain, page_metadata, trusted_source_info) ==
    IF trusted_source_info # None /\ "expertise" \in DOMAIN trusted_source_info
    THEN trusted_source_info.expertise
    ELSE LET base == Half
             authored == IF page_metadata.has_author_info
                         THEN FAdd(base, Literal(1, 10)) ELSE base
             score == IF EndsWith(domain, "edu") \/ EndsWith(domain, "gov")
                         \/ EndsWithAcUk(domain)
                      THEN FAdd(authored, Literal(2, 10))
                      ELSE IF EndsWith(domain, "org")
                           THEN FAdd(authored, Literal(1, 10)) ELSE authored
         IN  Clamp(score)

\* _evaluate_transparency (595-631)
evaluate_transparency(domain, page_metadata, trusted_source_info) ==
    IF trusted_source_info # None /\ "transparency" \in DOMAIN trusted_source_info
    THEN trusted_source_info.transparency
    ELSE LET base == Half
             about == IF page_metadata.has_about_page
                      THEN FAdd(base, Literal(1, 10)) ELSE base
             contact == IF page_metadata.has_contact_info
                        THEN FAdd(about, Literal(1, 10)) ELSE about
             funding == IF page_metadata.has_funding_info
                        THEN FAdd(contact, Literal(2, 10)) ELSE contact
             score == IF page_metadata.has_privacy_policy
                         /\ page_metadata.has_terms_of_service
                      THEN FAdd(funding, Literal(1, 10)) ELSE funding
         IN  Clamp(score)

\* _evaluate_past_accuracy (633-654)
evaluate_past_accuracy(domain, trusted_source_info, problematic_source_info) ==
    IF problematic_source_info # None
    THEN (IF "reliability" \in DOMAIN problematic_source_info
          THEN problematic_source_info.reliability ELSE Literal(1, 10))
    ELSE IF trusted_source_info # None /\ "reliability" \in DOMAIN trusted_source_info
         THEN trusted_source_info.reliability
         ELSE Half

\* _evaluate_editorial_process (656-684)
evaluate_editorial_process(domain, page_metadata, trusted_source_info) ==
    IF trusted_source_info # None /\ "editorial_process" \in DOMAIN trusted_source_info
    THEN trusted_source_info.editorial_process
    ELSE LET base == Half
             academic == IF EndsWith(domain, "edu") \/ EndsWith(domain, "gov")
                            \/ EndsWithAcUk(domain)
                         THEN FAdd(base, Literal(2, 10)) ELSE base
             score == IF page_metadata.has_author_info
                      THEN FAdd(academic, Literal(1, 10)) ELSE academic
         IN  Clamp(score)

\* _evaluate_independence (686-719)
evaluate_independence(domain, page_metadata, trusted_source_info, problematic_source_info) ==
    IF problematic_source_info # None THEN Literal(2, 10)
    ELSE IF trusted_source_info # None /\ "independence" \in DOMAIN trusted_source_info
         THEN trusted_source_info.independence
         ELSE LET base == Half
                  funded == IF page_metadata.has_funding_info
                            THEN FAdd(base, Literal(2, 10)) ELSE base
                  score == IF EndsWith(domain, "gov")
                           THEN FSub(funded, Literal(1, 10)) ELSE funded
              IN  Clamp(score)

\* _evaluate_recency (721-764); age_days is today's distance from the
\* page's modified date.
evaluate_recency(page_metadata, age_days) ==
    IF "published_date" \notin DOMAIN page_metadata
       /\ "modified_date" \notin DOMAIN page_metadata
    THEN Half
    ELSE IF age_days <= 7 THEN One
    ELSE IF age_days <= 30 THEN Literal(9, 10)
    ELSE IF age_days <= 90 THEN Literal(8, 10)
    ELSE IF age_days <= 365 THEN Literal(7, 10)
    ELSE IF age_days <= 730 THEN Literal(5, 10)
    ELSE IF age_days <= 1825 THEN Literal(3, 10)
    ELSE Literal(1, 10)

\* _evaluate_citation_quality (766-780)
evaluate_citation_quality(page_metadata) ==
    IF "has_citations" \in DOMAIN page_metadata /\ page_metadata.has_citations
    THEN Literal(8, 10) ELSE Literal(4, 10)

\* self.evaluation_weights (38-46), in the dictionary's order.
evaluation_weights ==
    << << "expertise", Literal(20, 100) >>,
       << "transparency", Literal(15, 100) >>,
       << "past_accuracy", Literal(20, 100) >>,
       << "editorial_process", Literal(15, 100) >>,
       << "independence", Literal(15, 100) >>,
       << "recency", Literal(10, 100) >>,
       << "citation_quality", Literal(5, 100) >> >>

\* The loop of lines 795-798 from the i-th weight on: the two sums.
RECURSIVE WeightedSums(_, _, _, _)
WeightedSums(evaluation_factors, i, weighted_sum, weight_sum) ==
    IF i > Len(evaluation_weights) THEN << weighted_sum, weight_sum >>
    ELSE LET factor == evaluation_weights[i][1]
             weight == evaluation_weights[i][2]
         IN  IF factor \in DOMAIN evaluation_factors
                /\ "score" \in DOMAIN evaluation_factors[factor]
             THEN CHOOSE sums \in
                      { WeightedSums(evaluation_factors, i + 1, added[1], added[2]) :
                        added \in
                          { << FAdd(weighted_sum,
                                    FMul(evaluation_factors[factor].score, weight)),
                               FAdd(weight_sum, weight) >> } } : TRUE
             ELSE WeightedSums(evaluation_factors, i + 1, weighted_sum, weight_sum)

\* _calculate_reliability_score (782-805)
calculate_reliability_score(evaluation_factors) ==
    CHOOSE score \in
        { IF sums[2] = Zero THEN Half ELSE FDiv(sums[1], sums[2]) :
          sums \in { WeightedSums(evaluation_factors, 1, Zero, Zero) } } : TRUE

\* Faulty variant: every score from 0.75 up is of the highest level.
determine_reliability_level_NoHighLevel(reliability_score) ==
    IF reliability_score >= Literal(75, 100) THEN "Velmi vysoka duveryhodnost"
    ELSE IF reliability_score >= Literal(6, 10) THEN "Stredni duveryhodnost"
    ELSE IF reliability_score >= Literal(4, 10) THEN "Nizka duveryhodnost"
    ELSE IF reliability_score >= Literal(2, 10) THEN "Velmi nizka duveryhodnost"
    ELSE "Neduveryhodny zdroj"

\* _determine_reliability_level (807-828)
determine_reliability_level(reliability_score) ==
    IF reliability_score >= Literal(9, 10) THEN "Velmi vysoka duveryhodnost"
    ELSE IF reliability_score >= Literal(75, 100) THEN "Vysoka duveryhodnost"
    ELSE IF reliability_score >= Literal(6, 10) THEN "Stredni duveryhodnost"
    ELSE IF reliability_score >= Literal(4, 10) THEN "Nizka duveryhodnost"
    ELSE IF reliability_score >= Literal(2, 10) THEN "Velmi nizka duveryhodnost"
    ELSE "Neduveryhodny zdroj"

\* 'news' in domain or 'zpravy' in domain (850), on the labels of the model.
MentionsNews(domain) ==
    \E i \in 1..Len(domain) : domain[i] \in { "example-fake-news", "seznamzpravy" }

\* _determine_source_type (830-856)
determine_source_type(domain, page_metadata) ==
    LET trusted_source_info == check_trusted_sources_db(domain)
    IN  IF trusted_source_info # None /\ "type" \in DOMAIN trusted_source_info
        THEN trusted_source_info.type
        ELSE IF EndsWith(domain, "gov") THEN "government"
        ELSE IF EndsWith(domain, "edu") \/ EndsWithAcUk(domain) THEN "academic"
        ELSE IF EndsWith(domain, "org") THEN "organization"
        ELSE IF MentionsNews(domain) THEN "news"
        ELSE "other"

\* _get_source_type_description (887-906)
get_source_type_description(source_type) ==
    CASE source_type = "news" -> "Zpravodajsky zdroj"
      [] source_type = "academic" -> "Akademicky zdroj"
      [] source_type = "government" -> "Vladni zdroj"
      [] source_type = "organization" -> "Organizace"
      [] source_type = "fact_checking" -> "Fact-checkingova organizace"
      [] source_type = "other" -> "Ostatni zdroj"
      [] OTHER -> "Neznamy typ zdroje"

\* _get_detailed_evaluation (908-927), without its methodology and
\* limitations texts.
get_detailed_evaluation(evaluated) ==
    [ factor_weights |-> evaluation_weights, confidence |-> Literal(8, 10) ]

\* _adapt_output_to_expertise_level (858-885)
adapt_output_to_expertise_level(evaluated, level) ==
    IF level = "basic"
    THEN [ url |-> evaluated.url, domain |-> evaluated.domain,
           reliability_level |-> evaluated.reliability_level,
           source_type |-> get_source_type_description(evaluated.source_type),
           source_name |-> evaluated.source_info.name ]
    ELSE IF level = "expert"
         THEN [ k \in DOMAIN evaluated \cup {"detailed_evaluation"} |->
                  IF k = "detailed_evaluation" THEN get_detailed_evaluation(evaluated)
                  ELSE evaluated[k] ]
         ELSE evaluated

\* The seven factors of lines 84-134.
EvaluationFactors(domain, page_metadata, trusted_source_info, problematic_source_info, age_days) ==
    [ expertise |->
        [ score |-> evaluate_expertise(domain, page_metadata, trusted_source_info) ],
      transparency |->
        [ score |-> evaluate_transparency(domain, page_metadata, trusted_source_info) ],
      past_accuracy |->
        [ score |-> evaluate_past_accuracy(domain, trusted_source_info,
                                           problematic_source_info) ],
      editorial_process |->
        [ score |-> evaluate_editorial_process(domain, page_metadata,
                                               trusted_source_info) ],
      independence |->
        [ score |-> evaluate_independence(domain, page_metadata, trusted_source_info,
                                          problematic_source_info) ],
      recency |-> [ score |-> evaluate_recency(page_metadata, age_days) ],
      citation_quality |-> [ score |-> evaluate_citation_quality(page_metadata) ] ]

\* The dictionary returned for an invalid URL (65-70); the except clause
\* of lines 172-179 returns the same fields.
InvalidUrlResult ==
    [ error |-> "Neplatna URL adresa", reliability_score |-> Zero,
      reliability_level |-> "Nehodnoceno", evaluation_factors |-> << >> ]

\* Faulty variant: an invalid URL is evaluated as a page of an unknown domain.
evaluate_source_NoValidation(url, level, age_days) ==
    LET page_metadata == fetch_page_metadata(url)
        evaluation_factors == EvaluationFactors(<< >>, page_metadata, None, None, age_days)
        reliability_score == calculate_reliability_score(evaluation_factors)
    IN  [ url |-> url, domain |-> << >>,
          reliability_score |-> reliability_score,
          reliability_level |-> determine_reliability_level(reliability_score),
          evaluation_factors |-> evaluation_factors ]

\* The dictionary of lines 142-154, with the additions of lines 157-162.
EvaluatedSource(url, domain, evaluation_factors, reliability_score) ==
    LET trusted_source_info == check_trusted_sources_db(domain)
        problematic_source_info == check_problematic_sources_db(domain)
        page_metadata == fetch_page_metadata(url)
    IN  [ url |-> url, domain |-> domain,
          reliability_score |-> reliability_score,
          reliability_level |-> determine_reliability_level(reliability_score),
          evaluation_factors |-> evaluation_factors,
          source_type |-> determine_source_type(domain, page_metadata),
          source_info |->
              [ name |-> page_metadata.site_name,
                description |-> page_metadata.description,
                is_trusted |-> trusted_source_info # None,
                is_problematic |-> problematic_source_info # None ]
              @@ (IF trusted_source_info # None
                  THEN [ trusted_info |-> trusted_source_info ] ELSE << >>)
              @@ (IF problematic_source_info # None
                  THEN [ problematic_info |-> problematic_source_info ]
                  ELSE << >>) ]

\* evaluate_source (48-179): the value returned for a URL, a level of detail
\* and the age of the page on the day of the call.  Each local of the method
\* is computed once: it is the element of a one-element set.
evaluate_source(url, level, age_days) ==
    IF ~is_valid_url(url) THEN InvalidUrlResult
    ELSE LET with_factors ==
                 { << domain,
                      EvaluationFactors(domain, fetch_page_metadata(url),
                                        check_trusted_sources_db(domain),
                                        check_problematic_sources_db(domain),
                                        age_days) >> :
                   domain \in { extract_domain(url) } }
             with_score ==
                 { << l[1], l[2], calculate_reliability_score(l[2]) >> :
                   l \in with_factors }
             evaluated ==
                 { EvaluatedSource(url, l[1], l[2], l[3]) : l \in with_score }
         IN  CHOOSE adapted \in
                 { adapt_output_to_expertise_level(e, level) : e \in evaluated } : TRUE

\* np.mean(valid_scores): the sum from the i-th score on, added to total.
RECURSIVE SumScoresFrom(_, _, _)
SumScoresFrom(valid_scores, i, total) ==
    IF i > Len(valid_scores) THEN total
    ELSE SumScoresFrom(valid_scores, i + 1, FAdd(total, valid_scores[i]))

mean(valid_scores) ==
    FDiv(SumScoresFrom(valid_scores, 1, Zero), Len(valid_scores) * One)

\* _calculate_source_types_distribution (1090-1109)
calculate_source_types_distribution(source_evaluations) ==
    LET counted == { i \in 1..Len(source_evaluations) :
                       "error" \notin DOMAIN source_evaluations[i] }
        TypeOf(i) == IF "source_type" \in DOMAIN source_evaluations[i]
                     THEN source_evaluations[i].source_type ELSE "unknown"
    IN  [ t \in { TypeOf(i) : i \in counted } |->
            Cardinality({ i \in counted : TypeOf(i) = t }) ]

\* Lines 202-220 for the evaluations of the sources.  The list
\* comprehension of line 203 reads e['reliability_score'] of every
\* evaluation without an error; a missing key raises KeyError, which nothing
\* catches.
Summarise(source_evaluations) ==
    LET valid == SelectSeq(source_evaluations, LAMBDA e : "error" \notin DOMAIN e)
        valid_scores == [ i \in 1..Len(valid) |-> valid[i].reliability_score ]
        avg_reliability_score ==
            IF valid_scores # << >> THEN mean(valid_scores) ELSE Zero
    IN  IF \E i \in 1..Len(valid) : "reliability_score" \notin DOMAIN valid[i]
        THEN [ outcome |-> "raised", exception |-> "KeyError: reliability_score" ]
        ELSE [ outcome |-> "returned",
               value |->
                 [ sources |-> source_evaluations,
                   overall_reliability_score |-> avg_reliability_score,
                   overall_reliability_level |->
                       determine_reliability_level(avg_reliability_score),
                   source_count |-> Len(source_evaluations),
                   valid_source_count |-> Len(valid_scores),
                   source_types_distribution |->
                       calculate_source_types_distribution(source_evaluations) ] ]

\* evaluate_multiple_sources (181-220): how the call ends.
evaluate_multiple_sources(source_list, level, age_days) ==
    CHOOSE ended \in
        { Summarise(source_evaluations) :
            source_evaluations \in
                { [ i \in 1..Len(source_list) |->
                      evaluate_source(source_list[i], level, age_days) ] } } : TRUE

---------------------------------------------------------------------------
(* evaluate_source and evaluate_multiple_sources called on every bounded   *)
(* list of URLs, at every level of detail, on days of every age band       *)

MaxSources == 2

UrlValues ==
    { << "https:", "//", "www", "czso", "cz", "/report" >>,
      << "https:", "//", "www", "irozhlas", "cz" >>,
      << "https:", "//", "example-fake-news", "com", "/report" >>,
      << "https:", "//", "data", "gov" >>,
      << "https:", "//", "foo", "org" >>,
      << "www", "czso", "cz", "/report" >>,
      << "https:", "/report" >>,
      << >> }

UrlLists == UNION { [1..n -> UrlValues] : n \in 0..MaxSources }

ExpertiseLevels == {"basic", "medium", "advanced", "expert"}

\* Ages of the page in the two youngest and the two oldest bands of
\* _evaluate_recency.
AgeDays == {0, 8, 731, 1826}

InitSourceEvaluator ==
    /\ IdleRequests
    /\ IdleVideo
    /\ pc = "evaluate"
    /\ sources \in UrlLists
    /\ source_url = << >>
    /\ expertise_level \in ExpertiseLevels
    /\ today \in AgeDays
    /\ response = << >>
    /\ result = NoResult
    /\ content = NoText
    /\ content_type = "text"
    /\ analysis_length = "standard"
    /\ fault = "none"
    /\ content_analysis = NoAnalysis
    /\ claims = << >>
    /\ verified_claims = << >>
    /\ truth_rating = NoRating
    /\ calls = 0

\* evaluation = self.evaluate_source(source_url, claim_text, expertise_level)
EvaluateSource ==
    /\ pc = "evaluate"
    /\ \E i \in 1..Len(sources) :
          /\ source_url' = sources[i]
          /\ result' = [ outcome |-> "returned",
                         value |-> evaluate_source(sources[i], expertise_level, today) ]
    /\ pc' = "evaluated"
    /\ calls' = calls + 1
    /\ UNCHANGED <<request_vars, video_vars>>
    /\ UNCHANGED <<content, content_type, analysis_length, fault, content_analysis,
                   claims, verified_claims, truth_rating,
                   sources, expertise_level, today, response>>

\* evaluate_multiple_sources(sources, expertise_level=expertise_level)
EvaluateMultipleSources ==
    /\ pc = "evaluate"
    /\ result' = evaluate_multiple_sources(sources, expertise_level, today)
    /\ pc' = "summarised"
    /\ calls' = calls + 1
    /\ UNCHANGED <<request_vars, video_vars>>
    /\ UNCHANGED <<content, content_type, analysis_length, fault, content_analysis,
                   claims, verified_claims, truth_rating,
                   sources, source_url, expertise_level, today, response>>

NextSourceEvaluator ==
    \/ EvaluateSource
    \/ EvaluateMultipleSources

SpecSourceEvaluator == InitSourceEvaluator /\ [][NextSourceEvaluator]_vars

---------------------------------------------------------------------------
(* Claims about SourceEvaluator, checked under SpecSourceEvaluator *)

Evaluated == pc = "evaluated"

Summarised == pc = "summarised"

\* The URL has a scheme and a host.
HasSchemeAndHost(url) ==
    /\ Len(url) >= 3
    /\ url[1] = "https:"
    /\ url[2] = "//"
    /\ ~IsPath(url[3])

\* The composite score evaluate_source computes for the URL in hand.
CompositeScore ==
    LET domain == extract_domain(source_url)
    IN  calculate_reliability_score(
            EvaluationFactors(domain, fetch_page_metadata(source_url),
                              check_trusted_sources_db(domain),
                              check_problematic_sources_db(domain), today))

\* The levels whose threshold range holds the score s.
LevelsHolding(s) ==
    { level \in { "Velmi vysoka duveryhodnost", "Vysoka duveryhodnost",
                  "Stredni duveryhodnost", "Nizka duveryhodnost",
                  "Velmi nizka duveryhodnost", "Neduveryhodny zdroj" } :
        CASE level = "Velmi vysoka duveryhodnost" -> s >= Literal(9, 10)
          [] level = "Vysoka duveryhodnost" -> s >= Literal(75, 100) /\ s < Literal(9, 10)
          [] level = "Stredni duveryhodnost" -> s >= Literal(6, 10) /\ s < Literal(75, 100)
          [] level = "Nizka duveryhodnost" -> s >= Literal(4, 10) /\ s < Literal(6, 10)
          [] level = "Velmi nizka duveryhodnost" -> s >= Literal(2, 10) /\ s < Literal(4, 10)
          [] OTHER -> s < Literal(2, 10) }

\* C16: for every valid URL the composite score lies in [0, 1] and the
\* reliability level returned is the one bucket of the thresholds 0.9, 0.75,
\* 0.6, 0.4, 0.2 that holds it.
C16_ScoreBoundedAndBucketed ==
    (Evaluated /\ HasSchemeAndHost(source_url)) =>
        /\ result.outcome = "returned"
        /\ "error" \notin DOMAIN result.value
        /\ expertise_level # "basic" =>
              /\ "reliability_score" \in DOMAIN result.value
              /\ result.value.reliability_score = CompositeScore
        /\ CompositeScore >= Zero
        /\ CompositeScore <= One
        /\ LevelsHolding(CompositeScore) = { result.value.reliability_level }

\* A registry source on a day when its page is old: a score between 0.75
\* and 0.9, of the level high.
C16_Witness ==
    /\ Evaluated
    /\ source_url = << "https:", "//", "www", "irozhlas", "cz" >>
    /\ today = 1826
    /\ expertise_level = "expert"
    /\ result.value.reliability_score >= Literal(75, 100)
    /\ result.value.reliability_score < Literal(9, 10)
    /\ result.value.reliability_level = "Vysoka duveryhodnost"

\* C17: evaluating https://www.czso.cz/report finds the registry entry of
\* czso.cz and returns the level very high with a score of at least 0.9.
C17_RegistryScoreForCzso ==
    (Evaluated /\ source_url = << "https:", "//", "www", "czso", "cz", "/report" >>) =>
        /\ result.value.domain = << "czso", "cz" >>
        /\ result.value.reliability_level = "Velmi vysoka duveryhodnost"
        /\ "reliability_score" \in DOMAIN result.value =>
              result.value.reliability_score >= Literal(9, 10)

\* C18: for every URL without a scheme or without a host evaluate_source
\* returns the error result: score 0.0, an error marker, no evaluation
\* factors and nothing taken from the registries.
C18_InvalidUrlResult ==
    (Evaluated /\ ~HasSchemeAndHost(source_url)) =>
        /\ result.outcome = "returned"
        /\ DOMAIN result.value =
              {"error", "reliability_score", "reliability_level", "evaluation_factors"}
        /\ result.value.reliability_score = Zero
        /\ result.value.evaluation_factors = << >>

\* The host of a registry source, without a scheme.
C18_Witness ==
    /\ Evaluated
    /\ source_url = << "www", "czso", "cz", "/report" >>
    /\ "error" \in DOMAIN result.value

\* The reliability scores of the sources evaluated without an error, from
\* the i-th source on.
RECURSIVE ValidScores(_)
ValidScores(i) ==
    IF i > Len(sources) THEN << >>
    ELSE LET evaluation == evaluate_source(sources[i], "medium", today)
         IN  (IF "error" \in DOMAIN evaluation THEN << >>
              ELSE << evaluation.reliability_score >>) \o ValidScores(i + 1)

\* C19: for every list of URLs and every level of detail
\* evaluate_multiple_sources returns a summary whose overall score is the
\* mean of the scores of the sources evaluated without an error (0.0 when
\* there are none) and whose overall level is the bucket of that mean.
C19_SummaryForEveryLevel ==
    Summarised =>
        /\ result.outcome = "returned"
        /\ result.value.overall_reliability_score =
              (IF ValidScores(1) = << >> THEN Zero ELSE mean(ValidScores(1)))
        /\ LevelsHolding(result.value.overall_reliability_score) =
              { result.value.overall_reliability_level }

---------------------------------------------------------------------------
(* OpenAIService.analyze_claim (openai_service.py, which the routes        *)
(* import, and services.py)                                                *)
(*                                                                         *)
(* The content of the model's response is a sequence of tokens: a brace,   *)
(* the members of a JSON object ("member"), or a line of text.             *)

MaxTokens == 3

\* The line holds a colon: what precedes it, stripped and lowered, and
\* what follows it, stripped.
LineKey(line) ==
    CASE line = "Verdikt: pravdive" -> "verdikt"
      [] line \in { "jistota: 80%", "jistota: vysoka" } -> "jistota"
      [] OTHER -> ""

LineValue(line) ==
    CASE line = "Verdikt: pravdive" -> "pravdive"
      [] line = "jistota: 80%" -> "80%"
      [] line = "jistota: vysoka" -> "vysoka"
      [] OTHER -> ""

\* content.find("{"): the 0-based index of the first opening brace, or -1.
RECURSIVE Find(_, _)
Find(text, i) ==
    IF i > Len(text) THEN -1
    ELSE IF text[i] = "{" THEN i - 1 ELSE Find(text, i + 1)

\* content.rfind("}"), searched from the i-th token down.
RECURSIVE RFind(_, _)
RFind(text, i) ==
    IF i < 1 THEN -1
    ELSE IF text[i] = "}" THEN i - 1 ELSE RFind(text, i - 1)

\* json.loads accepts the text: an object, empty or with its members.
IsJson(text) == text \in { << "{", "}" >>, << "{", "member", "}" >> }

\* json.loads(text) of an accepted text.
json_loads(text) ==
    IF text = << "{", "}" >> THEN << >>
    ELSE [ verdict |-> "pravdive", confidence |-> 90 ]

\* int(value.rstrip("%")): the number, or -1 for ValueError.
ParseInt(value) == IF value = "80%" THEN 80 ELSE -1

\* The loop of lines 275-289 from the i-th line on.
RECURSIVE ExtractFromLines(_, _, _)
ExtractFromLines(lines, i, parsed) ==
    IF i > Len(lines) THEN parsed
    ELSE LET key == LineKey(lines[i])
             value == LineValue(lines[i])
             next ==
                 IF key \in { "verdict", "verdikt" }
                 THEN [ parsed EXCEPT !.verdict = value ]
                 ELSE IF key \in { "confidence", "jistota" } /\ ParseInt(value) >= 0
                      THEN [ parsed EXCEPT !.confidence = ParseInt(value) ]
                      ELSE parsed
         IN  ExtractFromLines(lines, i + 1, next)

\* _parse_analysis_response (241-296): the value returned, or the
\* ValueError raised when the text between the first opening and the last
\* closing brace is not JSON.
parse_analysis_response(text) ==
    LET json_start == Find(text, 1)
        json_end == RFind(text, Len(text)) + 1
    IN  IF json_start >= 0 /\ json_end > json_start
        THEN LET json_str == SubSeq(text, json_start + 1, json_end)
             IN  IF IsJson(json_str)
                 THEN [ outcome |-> "returned", value |-> json_loads(json_str) ]
                 ELSE [ outcome |-> "raised",
                        exception |-> "ValueError: Odpoved API neobsahuje validni JSON." ]
        ELSE [ outcome |-> "returned",
               value |-> ExtractFromLines(text, 1,
                             [ verdict |-> "nelze urcit", confidence |-> 0,
                               explanation |-> text, evidence |-> << >>,
                               sources |-> << >> ]) ]

\* analyze_claim of openai_service.py (48-74): an exception of the parser
\* is raised again as Exception.
analyze_claim(text) ==
    LET parsed == parse_analysis_response(text)
    IN  IF parsed.outcome = "raised"
        THEN [ outcome |-> "raised",
               exception |-> "Exception: Chyba pri zpracovani odpovedi API" ]
        ELSE parsed

\* analyze_claim of services.py (45-118), once the request has succeeded:
\* the whole content goes to json.loads, and JSONDecodeError yields the
\* fallback of lines 87-91.
services_analyze_claim(text, analysis_type) ==
    LET analysis_result ==
            IF IsJson(text) THEN json_loads(text)
            ELSE [ verdict |-> "nelze overit", confidence |-> 0, explanation |-> text ]
    IN  [ outcome |-> "returned",
          value |-> [ k \in DOMAIN analysis_result \cup {"analysis_type"} |->
                        IF k = "analysis_type" THEN analysis_type
                        ELSE analysis_result[k] ] ]

TokenValues ==
    { "{", "}", "member", "Tvrzeni je nejasne", "Verdikt: pravdive",
      "jistota: 80%", "jistota: vysoka" }

ResponseContents == UNION { [1..n -> TokenValues] : n \in 0..MaxTokens }

InitOpenAI ==
    /\ IdleRequests
    /\ IdleVideo
    /\ pc = "analyze_claim"
    /\ response \in ResponseContents
    /\ result = NoResult
    /\ sources = << >>
    /\ source_url = << >>
    /\ expertise_level = "medium"
    /\ today = 0
    /\ content = NoText
    /\ content_type = "text"
    /\ analysis_length = "standard"
    /\ fault = "none"
    /\ content_analysis = NoAnalysis
    /\ claims = << >>
    /\ verified_claims = << >>
    /\ truth_rating = NoRating
    /\ calls = 0

\* result = openai_service.analyze_claim(claim_text, analysis_type), with the
\* service of openai_service.py
AnalyzeClaim ==
    /\ pc = "analyze_claim"
    /\ result' = analyze_claim(response)
    /\ pc' = "analyzed_claim"
    /\ calls' = calls + 1
    /\ UNCHANGED <<request_vars, video_vars>>
    /\ UNCHANGED <<content, content_type, analysis_length, fault, content_analysis,
                   claims, verified_claims, truth_rating,
                   sources, source_url, expertise_level, today, response>>

\* The same call, with the service of services.py
ServicesAnalyzeClaim ==
    /\ pc = "analyze_claim"
    /\ result' = services_analyze_claim(response, analysis_length)
    /\ pc' = "services_analyzed_claim"
    /\ calls' = calls + 1
    /\ UNCHANGED <<request_vars, video_vars>>
    /\ UNCHANGED <<content, content_type, analysis_length, fault, content_analysis,
                   claims, verified_claims, truth_rating,
                   sources, source_url, expertise_level, today, response>>

NextOpenAI ==
    \/ AnalyzeClaim
    \/ ServicesAnalyzeClaim

SpecOpenAI == InitOpenAI /\ [][NextOpenAI]_vars

---------------------------------------------------------------------------
(* Claims about analyze_claim, checked under SpecOpenAI *)

ClaimAnalyzed == pc \in { "analyzed_claim", "services_analyzed_claim" }

\* No line of the response names a verdict or a confidence.
NothingRecoverable ==
    \A i \in 1..Len(response) : LineKey(response[i]) = ""

\* C20: a response that is not JSON never makes analyze_claim raise, and
\* when its text names no verdict and no confidence the result is the
\* unverifiable one, with confidence 0.
C20_UnparseableNeverRaises ==
    (ClaimAnalyzed /\ ~IsJson(response)) =>
        /\ result.outcome = "returned"
        /\ NothingRecoverable =>
              /\ "verdict" \in DOMAIN result.value
              /\ result.value.verdict \in { "nelze urcit", "nelze overit" }
              /\ result.value.confidence = 0

---------------------------------------------------------------------------
(* OpenAIService._send_request_with_retry and the except clauses of
   analyze_claim (services.py 77-118, 206-292).  An exception is its classes
   and the words of str(e). *)

\* max_retries: int = 3 (line 206)
max_retries == 3

\* needle in haystack, for sequences of words: needle is a run of
\* consecutive words of haystack, letter case included.
Contains(haystack, needle) ==
    \E i \in 0..(Len(haystack) - Len(needle)) :
        \A j \in 1..Len(needle) : haystack[i + j] = needle[j]

\* ValueError("Neplatný API klíč nebo nedostatečná oprávnění") (232)
InvalidKeyError ==
    [ types |-> {"ValueError"},
      message |-> << "Neplatny", "API", "klic", "nebo", "nedostatecna", "opravneni" >> ]

\* ValueError(f"Model není dostupný: {data.get('model')}") (241)
ModelUnavailableError ==
    [ types |-> {"ValueError"},
      message |-> << "Model", "neni", "dostupny", ":", "gpt-3.5-turbo" >> ]

\* requests.exceptions.RequestException(f"API chyba: {error_msg}") (251)
ApiError(status) ==
    [ types |-> {"RequestException"},
      message |-> << "API", "chyba", ":", "HTTP", "chyba", status >> ]

\* What requests.post raises: ConnectionError and Timeout are
\* RequestExceptions.
TransportError(name) ==
    [ types |-> {"RequestException"}, message |-> << name >> ]

\* What response.json() raises on a body that is not JSON:
\* requests.exceptions.JSONDecodeError, a RequestException and a ValueError.
UndecodableBodyError ==
    [ types |-> {"RequestException", "ValueError"},
      message |-> << "Expecting", "value" >> ]

\* RuntimeError("Překročen maximální počet pokusů") (272)
RetriesExceededError ==
    [ types |-> {"RuntimeError"},
      message |-> << "Prekrocen", "maximalni", "pocet", "pokusu" >> ]

\* Faulty variant: no error ends the loop at once.
is_not_retried_Never(e) == FALSE

\* The test of line 258: isinstance(e, ValueError) and ("API klíč" in str(e)
\* or "model není dostupný" in str(e))
is_not_retried(e) ==
    /\ "ValueError" \in e.types
    /\ \/ Contains(e.message, << "API", "klic" >>)
       \/ Contains(e.message, << "model", "neni", "dostupny" >>)

\* Faulty variant: the wait grows by two seconds with every attempt.
wait_time_Linear(count) == 2 * count

\* wait_time = 2 ** retry_count (236, 264)
wait_time(count) == 2 ^ count

\* _get_error_response (274-292)
get_error_response(error_message) ==
    [ outcome |-> "returned",
      value |->
        [ verdict |-> "nelze overit",
          confidence |-> 0,
          explanation |->
              << "Nepodarilo", "se", "provest", "analyzu", ":" >> \o error_message,
          evidences |-> << >>,
          sources |-> << >>,
          logical_fallacies |-> << >>,
          manipulation_techniques |-> << >> ] ]

\* Faulty variant: only the errors of the transport are handled.
analyze_claim_except_TransportOnly(e) ==
    IF "RequestException" \in e.types
    THEN get_error_response(<< "Chyba", "komunikace", ":" >> \o e.message)
    ELSE [ outcome |-> "raised", exception |-> e ]

\* The except clauses of analyze_claim (100-118), in their order; the
\* clause for json.JSONDecodeError (105) follows the one that already takes
\* the error of response.json().
analyze_claim_except(e) ==
    IF "RequestException" \in e.types
    THEN get_error_response(<< "Chyba", "komunikace", ":" >> \o e.message)
    ELSE IF "ValueError" \in e.types
         THEN get_error_response(e.message)
         ELSE get_error_response(<< "Neocekavana", "chyba", ":" >> \o e.message)

\* The exception that leaves _send_request_with_retry: the one of line 259,
\* or the one of lines 269-272.
Raised == IF last_error # None THEN last_error ELSE RetriesExceededError

\* The statuses the else branch of line 242 takes.
OtherStatuses == { "400", "500" }

\* The exceptions of requests.post.
TransportFailures == { "ConnectionError", "Timeout" }

\* Contents of a response with status 200.
CompletionContents ==
    { << >>, << "{", "member", "}" >>, << "Tvrzeni je nejasne" >> }

InitRequests ==
    /\ IdleVideo
    /\ pc = "request"
    /\ retry_count = 0
    /\ last_error = None
    /\ waits = << >>
    /\ statuses = << >>
    /\ response \in CompletionContents
    /\ analysis_length \in { "quick", "standard" }
    /\ result = NoResult
    /\ sources = << >>
    /\ source_url = << >>
    /\ expertise_level = "medium"
    /\ today = 0
    /\ content = NoText
    /\ content_type = "text"
    /\ fault = "none"
    /\ content_analysis = NoAnalysis
    /\ claims = << >>
    /\ verified_claims = << >>
    /\ truth_rating = NoRating
    /\ calls = 0

\* What no step of the request loop changes.
request_frame ==
    <<content, content_type, analysis_length, fault, content_analysis, claims,
      verified_claims, truth_rating, sources, source_url, expertise_level,
      today, response, calls>>

\* requests.post is called (226) and ends as status tells.
Post(status) ==
    /\ pc = "request"
    /\ retry_count < max_retries
    /\ statuses' = Append(statuses, status)

\* The except clause of lines 253-266 for the exception e.
Except(e) ==
    /\ last_error' = e
    /\ retry_count' = retry_count + 1
    /\ IF is_not_retried(e)
       THEN /\ pc' = "raised"
            /\ waits' = waits
       ELSE IF retry_count + 1 >= max_retries
            THEN /\ pc' = "raised"
                 /\ waits' = waits
            ELSE /\ pc' = "request"
                 /\ waits' = Append(waits, wait_time(retry_count + 1))

\* Status 200 with a body that is JSON: return response.json() (229-230)
PostOk ==
    /\ Post("200")
    /\ pc' = "received"
    /\ UNCHANGED <<retry_count, last_error, waits, result>>
    /\ UNCHANGED video_vars
    /\ UNCHANGED request_frame

\* Status 200 with a body that is not JSON: response.json() raises.
PostUndecodable ==
    /\ Post("200 undecodable")
    /\ Except(UndecodableBodyError)
    /\ UNCHANGED result
    /\ UNCHANGED video_vars
    /\ UNCHANGED request_frame

\* Status 401 (231-232)
PostUnauthorized ==
    /\ Post("401")
    /\ Except(InvalidKeyError)
    /\ UNCHANGED result
    /\ UNCHANGED video_vars
    /\ UNCHANGED request_frame

\* Status 429 (233-239): the wait, then the loop's test
PostRateLimited ==
    /\ Post("429")
    /\ retry_count' = retry_count + 1
    /\ waits' = Append(waits, wait_time(retry_count + 1))
    /\ pc' = IF retry_count + 1 < max_retries THEN "request" ELSE "raised"
    /\ UNCHANGED <<last_error, result>>
    /\ UNCHANGED video_vars
    /\ UNCHANGED request_frame

\* Status 404 (240-241)
PostNotFound ==
    /\ Post("404")
    /\ Except(ModelUnavailableError)
    /\ UNCHANGED result
    /\ UNCHANGED video_vars
    /\ UNCHANGED request_frame

\* Any other status (242-251)
PostOtherStatus ==
    /\ \E status \in OtherStatuses :
          /\ Post(status)
          /\ Except(ApiError(status))
    /\ UNCHANGED result
    /\ UNCHANGED video_vars
    /\ UNCHANGED request_frame

\* requests.post raises
PostFails ==
    /\ \E failure \in TransportFailures :
          /\ Post(failure)
          /\ Except(TransportError(failure))
    /\ UNCHANGED result
    /\ UNCHANGED video_vars
    /\ UNCHANGED request_frame

\* analyze_claim with the response (82-98)
ReturnAnalysis ==
    /\ pc = "received"
    /\ result' = services_analyze_claim(response, analysis_length)
    /\ pc' = "done"
    /\ UNCHANGED request_vars
    /\ UNCHANGED video_vars
    /\ UNCHANGED request_frame

\* analyze_claim with the exception of _send_request_with_retry (100-118)
ReturnError ==
    /\ pc = "raised"
    /\ result' = analyze_claim_except(Raised)
    /\ pc' = "done"
    /\ UNCHANGED request_vars
    /\ UNCHANGED video_vars
    /\ UNCHANGED request_frame

NextRequests ==
    \/ PostOk
    \/ PostUndecodable
    \/ PostUnauthorized
    \/ PostRateLimited
    \/ PostNotFound
    \/ PostOtherStatus
    \/ PostFails
    \/ ReturnAnalysis
    \/ ReturnError

SpecRequests == InitRequests /\ [][NextRequests]_vars

\* Every call of analyze_claim returns or raises: each request is followed
\* by the next step of the loop.
FairRequests == SpecRequests /\ WF_vars(NextRequests)

---------------------------------------------------------------------------
(* Claims about the request loop, checked under SpecRequests and
   FairRequests *)

\* The k-th request failed.
FailedAttempt(k) == statuses[k] # "200"

\* _send_request_with_retry has ended.
RequestEnded == pc \in { "received", "raised", "done" }

\* The result of _get_error_response, whatever its explanation.
Degraded(value) ==
    /\ { "verdict", "confidence", "evidences", "sources" } \subseteq DOMAIN value
    /\ value.verdict = "nelze overit"
    /\ value.confidence = 0
    /\ value.evidences = << >>
    /\ value.sources = << >>

\* C21: when no request of a call of analyze_claim is answered with a usable
\* status 200, the call returns, without raising, the degraded result:
\* verdict "nelze overit", confidence 0, no evidence and no source.
C21_TotalFailureDegrades ==
    (pc = "done" /\ \A k \in 1..Len(statuses) : FailedAttempt(k)) =>
        /\ result.outcome = "returned"
        /\ Degraded(result.value)

\* All three requests were rate-limited: the RuntimeError of line 272 is
\* turned into the degraded result.
C21_Witness ==
    /\ pc = "done"
    /\ statuses = << "429", "429", "429" >>
    /\ last_error = None
    /\ result.outcome = "returned"
    /\ Degraded(result.value)

\* The waits follow the requests one to one, and wait k lasts 2^k seconds.
ExponentialBackoff ==
    /\ Len(waits) <= Len(statuses)
    /\ \A k \in 1..Len(waits) : FailedAttempt(k) /\ waits[k] = 2 ^ k

BackoffBeforeRetry ==
    /\ Len(statuses) <= max_retries
    /\ ExponentialBackoff
    /\ \A k \in 1..Len(statuses) :
          (FailedAttempt(k) /\ (statuses[k] = "429" \/ k < Len(statuses)))
              => Len(waits) >= k
    /\ pc = "received" =>
          /\ statuses[Len(statuses)] = "200"
          /\ \A k \in 1..(Len(statuses) - 1) : FailedAttempt(k)

C23_UnauthorizedNotRetried ==
    \A k \in 1..Len(statuses) :
        statuses[k] = "401" =>
            /\ k = Len(statuses)
            /\ Len(waits) < k
            /\ pc \in { "raised", "done" }
            /\ pc = "done" =>
                  /\ result.outcome = "returned"
                  /\ Degraded(result.value)

\* A rate-limited request, then status 401: one wait, two requests.
C23_Witness ==
    /\ pc = "done"
    /\ statuses = << "429", "401" >>
    /\ waits = << 2 >>
    /\ Degraded(result.value)

\* C24: a request answered with status 404 is the last one of the call and
\* no wait follows it.
C24_NotFoundNotRetried ==
    \A k \in 1..Len(statuses) :
        statuses[k] = "404" =>
            /\ k = Len(statuses)
            /\ Len(waits) < k
            /\ pc \in { "raised", "done" }

---------------------------------------------------------------------------
(* VideoAnalyzer._extract_key_frames (video_analyzer.py 176-253).  A frame
   is its index; cap.read() after cap.set(cv2.CAP_PROP_POS_FRAMES, i)
   delivers a frame when the video has a frame i. *)

MaxFrames == 26    \* frames of the longest video

\* float(n) for a nonnegative int
IntToFloat(n) == Literal(n, 1)

\* int(x) for a nonnegative float
FloatToInt(x) == x \div One

\* _get_key_frames_count (236-253)
get_key_frames_count(length) ==
    CASE length = "brief" -> 3
      [] length = "standard" -> 5
      [] length = "detailed" -> 8
      [] length = "exhaustive" -> 12
      [] OTHER -> 5

\* Lines 194-198: the number of key frames asked for.
NumKeyFrames(frame_count, length) ==
    IF frame_count < get_key_frames_count(length) * 2
    THEN (IF frame_count \div 2 > 1 THEN frame_count \div 2 ELSE 1)
    ELSE get_key_frames_count(length)

\* Lines 201-204: interval, a float when it is a quotient.  The model's
\* floats have Precision bits: the products of line 210 are rounded earlier
\* than those of a double, and as with doubles the last one is frame_count
\* unless the rounding of the quotient brings it just below.
KeyFrameInterval(frame_count, num_key_frames) ==
    IF num_key_frames > 1
    THEN FDiv(IntToFloat(frame_count), IntToFloat(num_key_frames - 1))
    ELSE IntToFloat(frame_count)

\* frame_idx = int(i * interval) for i in range(num_key_frames) (209-210)
KeyFrameIndices(frame_count, num_key_frames) ==
    [ n \in 1..num_key_frames |->
        FloatToInt(FMul(IntToFloat(n - 1),
                        KeyFrameInterval(frame_count, num_key_frames))) ]

\* ret of cap.read() at the position frame
CanRead(video, frame) == frame < video.frame_count

\* timestamp = frame_idx / fps if fps > 0 else 0 (219)
Timestamp(video, frame) ==
    IF video.fps > Zero THEN FDiv(IntToFloat(frame), video.fps) ELSE Zero

\* The key_frames of lines 206-226 for the indices from the n-th on.
RECURSIVE ReadKeyFrames(_, _, _)
ReadKeyFrames(video, indices, n) ==
    IF n > Len(indices) THEN << >>
    ELSE (IF CanRead(video, indices[n])
          THEN << [ frame_idx |-> indices[n],
                    timestamp |-> Timestamp(video, indices[n]) ] >>
          ELSE << >>)
         \o ReadKeyFrames(video, indices, n + 1)

\* _extract_key_frames (176-234)
extract_key_frames(video, length) ==
    ReadKeyFrames(video,
                  KeyFrameIndices(video.frame_count,
                                  NumKeyFrames(video.frame_count, length)), 1)

\* cap.get(cv2.CAP_PROP_FPS): no rate, whole rates and a fractional one.
FpsValues == { Zero, One, 2 * One, Literal(5, 2), 4 * One }

InitKeyFrames ==
    /\ IdleServices
    /\ IdleRequests
    /\ pc = "extract_key_frames"
    /\ video_data \in [ fps : FpsValues, frame_count : 0..MaxFrames ]
    /\ analysis_length \in AnalysisLengths
    /\ frame_idx = 0
    /\ prev_frame = FALSE
    /\ diff_mean = 0
    /\ current_scene = [start |-> 0, end |-> 0]
    /\ scenes = << >>
    /\ positions = << >>
    /\ result = NoResult
    /\ content = MediaPath
    /\ content_type = "video"
    /\ fault = "none"
    /\ content_analysis = NoAnalysis
    /\ claims = << >>
    /\ verified_claims = << >>
    /\ truth_rating = NoRating
    /\ calls = 0

\* key_frames = self._extract_key_frames(video_data, analysis_length): the
\* positions asked of the capture, the last one the reset of line 229.
ExtractKeyFrames ==
    /\ pc = "extract_key_frames"
    /\ positions' =
          KeyFrameIndices(video_data.frame_count,
                          NumKeyFrames(video_data.frame_count, analysis_length))
          \o << 0 >>
    /\ result' = [ outcome |-> "returned",
                   value |-> extract_key_frames(video_data, analysis_length) ]
    /\ pc' = "extracted_key_frames"
    /\ calls' = calls + 1
    /\ UNCHANGED service_vars
    /\ UNCHANGED request_vars
    /\ UNCHANGED <<video_data, frame_idx, prev_frame, diff_mean, current_scene, scenes>>
    /\ UNCHANGED <<content, content_type, analysis_length, fault, content_analysis,
                   claims, verified_claims, truth_rating>>

NextKeyFrames == ExtractKeyFrames

SpecKeyFrames == InitKeyFrames /\ [][NextKeyFrames]_vars

---------------------------------------------------------------------------
(* Claims about key-frame extraction, checked under SpecKeyFrames *)

KeyFramesExtracted == pc = "extracted_key_frames"

\* The positions asked for the key frames: all but the reset.
RequestedIndices == SubSeq(positions, 1, Len(positions) - 1)

\* C27: for a video with at least twice as many frames as the profile
\* count n, only indices in 0..frame_count-1 are requested and exactly n key
\* frames are returned; for a shorter video max(1, frame_count // 2) key
\* frames are returned.
C27_KeyFrameCount ==
    KeyFramesExtracted =>
        LET n == get_key_frames_count(analysis_length)
            frame_count == video_data.frame_count
        IN  IF frame_count >= 2 * n
            THEN /\ \A i \in 1..Len(RequestedIndices) :
                        RequestedIndices[i] \in 0..(frame_count - 1)
                 /\ Len(result.value) = n
            ELSE Len(result.value) =
                     (IF frame_count \div 2 > 1 THEN frame_count \div 2 ELSE 1)

---------------------------------------------------------------------------
(* VideoAnalyzer._detect_scenes (video_analyzer.py 343-422), one step for
   each sampled frame.  diff_mean is the mean absolute difference of two
   gray images, in gray levels. *)

MaxSceneFrames == 8    \* frames of the longest video searched for scenes

\* threshold = 30.0 (366)
threshold == 30

\* min_scene_length = int(fps * 1.5) (367)
min_scene_length(fps) == FloatToInt(FMul(fps, Literal(3, 2)))

\* max(1, int(fps / 2)), the step of the range of line 369
SamplingStep(fps) ==
    IF FloatToInt(FDiv(fps, 2 * One)) > 1 THEN FloatToInt(FDiv(fps, 2 * One)) ELSE 1

\* Faulty variant: a scene of exactly the minimum length can be cut.
is_scene_cut_AtMinimumLength(video, scene, frame, diff) ==
    diff > threshold /\ (frame - scene.start) >= min_scene_length(video.fps)

\* The test of line 386
is_scene_cut(video, scene, frame, diff) ==
    diff > threshold /\ (frame - scene.start) > min_scene_length(video.fps)

\* The scene closed at the frame end (388-389, 407-408); fps is not 0.
ClosedScene(video, scene, end) ==
    [ start |-> scene.start, end |-> end, changes |-> scene.changes,
      duration |-> FDiv(IntToFloat(end - scene.start), video.fps) ]

\* Lines 396-401: the change recorded in the scene.
RecordChange(scene, frame, diff) ==
    IF 2 * diff > threshold
    THEN [ scene EXCEPT !.changes =
               Append(@, [ frame |-> frame, magnitude |-> diff ]) ]
    ELSE scene

\* Lines 415-419: the scenes with their times in seconds.
TimedScenes(video, scene_list) ==
    [ i \in 1..Len(scene_list) |->
        [ start |-> scene_list[i].start, end |-> scene_list[i].end,
          changes |-> scene_list[i].changes, duration |-> scene_list[i].duration,
          start_time |-> FDiv(IntToFloat(scene_list[i].start), video.fps),
          end_time |-> FDiv(IntToFloat(scene_list[i].end), video.fps) ] ]

\* Differences below half the threshold, at the threshold and above it.
DiffValues == { 10, 30, 31 }

InitScenes ==
    /\ IdleServices
    /\ IdleRequests
    /\ pc = "detect_scenes"
    /\ video_data \in [ fps : FpsValues, frame_count : 0..MaxSceneFrames ]
    /\ frame_idx = 0
    /\ prev_frame = FALSE
    /\ diff_mean = 0
    /\ current_scene = [start |-> 0, end |-> 0, changes |-> << >>]
    /\ scenes = << >>
    /\ positions = << 0 >>
    /\ analysis_length = "standard"
    /\ result = NoResult
    /\ content = MediaPath
    /\ content_type = "video"
    /\ fault = "none"
    /\ content_analysis = NoAnalysis
    /\ claims = << >>
    /\ verified_claims = << >>
    /\ truth_rating = NoRating
    /\ calls = 0

\* What no step of _detect_scenes changes.
scenes_frame ==
    <<content, content_type, analysis_length, fault, content_analysis, claims,
      verified_claims, truth_rating, calls, video_data>>

\* The first frame of the video is read: there is nothing to compare it
\* with (370-380, 403).
ReadFirstFrame ==
    /\ pc = "detect_scenes"
    /\ frame_idx < video_data.frame_count
    /\ ~prev_frame
    /\ positions' = Append(positions, frame_idx)
    /\ prev_frame' = TRUE
    /\ frame_idx' = frame_idx + SamplingStep(video_data.fps)
    /\ UNCHANGED <<diff_mean, current_scene, scenes, result, pc>>
    /\ UNCHANGED service_vars
    /\ UNCHANGED request_vars
    /\ UNCHANGED scenes_frame

\* A further frame is read and compared with the previous one (370-403).
\* Closing a scene of a video without a frame rate divides by zero, and the
\* except clause of line 420 returns the empty list.
CompareFrame ==
    /\ pc = "detect_scenes"
    /\ frame_idx < video_data.frame_count
    /\ prev_frame
    /\ positions' = Append(positions, frame_idx)
    /\ \E diff \in DiffValues :
          /\ diff_mean' = diff
          /\ IF is_scene_cut(video_data, current_scene, frame_idx, diff)
             THEN IF video_data.fps = Zero
                  THEN /\ result' = [ outcome |-> "returned", value |-> << >> ]
                       /\ pc' = "detected_scenes"
                       /\ current_scene' = [ current_scene EXCEPT !.end = frame_idx ]
                       /\ UNCHANGED <<scenes, frame_idx>>
                  ELSE /\ scenes' =
                             Append(scenes, ClosedScene(video_data, current_scene, frame_idx))
                       /\ current_scene' =
                             RecordChange([ start |-> frame_idx, end |-> frame_idx,
                                            changes |-> << >> ], frame_idx, diff)
                       /\ frame_idx' = frame_idx + SamplingStep(video_data.fps)
                       /\ UNCHANGED <<result, pc>>
             ELSE /\ current_scene' = RecordChange(current_scene, frame_idx, diff)
                  /\ frame_idx' = frame_idx + SamplingStep(video_data.fps)
                  /\ UNCHANGED <<scenes, result, pc>>
    /\ UNCHANGED prev_frame
    /\ UNCHANGED service_vars
    /\ UNCHANGED request_vars
    /\ UNCHANGED scenes_frame

\* Lines 405-419, after the loop: the last scene is added and the scenes
\* are returned with their times.
Finish ==
    /\ IF current_scene.start < video_data.frame_count - 1
       THEN IF video_data.fps = Zero
            THEN /\ result' = [ outcome |-> "returned", value |-> << >> ]
                 /\ current_scene' =
                       [ current_scene EXCEPT !.end = video_data.frame_count - 1 ]
                 /\ UNCHANGED scenes
            ELSE /\ scenes' =
                       Append(scenes, ClosedScene(video_data, current_scene,
                                                  video_data.frame_count - 1))
                 /\ current_scene' =
                       ClosedScene(video_data, current_scene,
                                   video_data.frame_count - 1)
                 /\ result' = [ outcome |-> "returned",
                                value |-> TimedScenes(video_data, scenes') ]
       ELSE /\ result' = [ outcome |-> "returned",
                           value |-> TimedScenes(video_data, scenes) ]
            /\ UNCHANGED <<scenes, current_scene>>
    /\ pc' = "detected_scenes"

\* The range of line 369 is exhausted.
FinishScenes ==
    /\ pc = "detect_scenes"
    /\ frame_idx >= video_data.frame_count
    /\ Finish
    /\ positions' = Append(positions, 0)
    /\ UNCHANGED <<frame_idx, prev_frame, diff_mean>>
    /\ UNCHANGED service_vars
    /\ UNCHANGED request_vars
    /\ UNCHANGED scenes_frame

\* cap.read() delivers no frame: the break of line 374.
ReadFailure ==
    /\ pc = "detect_scenes"
    /\ frame_idx < video_data.frame_count
    /\ Finish
    /\ positions' = positions \o << frame_idx, 0 >>
    /\ UNCHANGED <<frame_idx, prev_frame, diff_mean>>
    /\ UNCHANGED service_vars
    /\ UNCHANGED request_vars
    /\ UNCHANGED scenes_frame

NextScenes ==
    \/ ReadFirstFrame
    \/ CompareFrame
    \/ FinishScenes
    \/ ReadFailure

SpecScenes == InitScenes /\ [][NextScenes]_vars

---------------------------------------------------------------------------
(* Claims about scene detection, checked under SpecScenes *)

\* The step starts a new scene.
CutDeclared == current_scene'.start # current_scene.start

\* A cut is declared only on a difference above the threshold, in a scene
\* that has lasted longer than the minimum length.
CutJustified ==
    CutDeclared =>
        /\ diff_mean' > threshold
        /\ current_scene'.start - current_scene.start
               > min_scene_length(video_data.fps)
        /\ current_scene'.start = frame_idx

\* Every scene but the last one spans more than the minimum length.
ScenesLongEnough ==
    /\ \A i \in 1..(Len(scenes) - 1) :
          scenes[i].end - scenes[i].start > min_scene_length(video_data.fps)
    /\ pc = "detected_scenes" =>
          \A i \in 1..(Len(result.value) - 1) :
              result.value[i].end - result.value[i].start
                  > min_scene_length(video_data.fps)

\* C28: a cut is declared at a sampled frame only when the difference to
\* the previous sampled frame is above the threshold and the current scene
\* has lasted longer than the minimum length, and every detected scene
\* except possibly the last one spans more than the minimum length.
C28_CutsAfterMinimumLength == [](ScenesLongEnough) /\ [][CutJustified]_vars

\* Two scenes were cut and returned, and in one of them a difference above
\* the threshold, too early in the scene, was recorded without a cut.
C28_Witness ==
    /\ pc = "detected_scenes"
    /\ Len(result.value) >= 3
    /\ \E i \in 1..Len(result.value) :
          \E c \in 1..Len(result.value[i].changes) :
              /\ result.value[i].changes[c].magnitude > threshold
              /\ result.value[i].changes[c].frame > result.value[i].start

=============================================================================
